---- MODULE Spec2Model ----
(***************************************************************************)
(* gochatp2p: discovery (network.go), the SuperNode manager (supernode.go) *)
(* and the session facade with SendMessage (P2PChat).                      *)
(*                                                                         *)
(* Every node of the overlay runs the same program; the state of the       *)
(* program is kept per host.  Time is the wall clock in seconds.  The      *)
(* manager's sync.RWMutex is not reentrant: a goroutine that holds it      *)
(* exclusively and then asks for it in shared mode never returns, and the  *)
(* lock stays held (muHeld) for the rest of the run.                       *)
(***************************************************************************)
EXTENDS Integers, Sequences, FiniteSets, TLC

\* ---------------------------------------------------------------- bounds
\* the hosts of the overlay
Hosts == {"X", "Y", "A", "B", "C", "D", "E"}
\* number of clock steps the model follows
MaxTicks == 2

\* ------------------------------------------------------ program constants
TCPPort == 8080
\* seconds between two announcements of a node
BroadcastTimeout == 5
\* seconds per clock step: three announcement periods
TickSeconds == 3 * BroadcastTimeout
RelayThreshold == 5
LivenessTimeout == 30
InitialCandidates == 5
KeyLength == 16
\* a source port the OS gives to an outbound connection
EphemeralPort == 49152

\* --------------------------------------------------------------- values
\* (a record constructor lists its fields in the order in which the field
\* names first occur in this module, the order of TLC's normal form)
\* an "ip:port" string
Addr(h, n) == [host |-> h, port |-> n]
\* the address a node advertises and listens on (NewP2PChat)
LocalAddress(h) == Addr(h, TCPPort)
NoAddr == Addr("", 0)
Nickname(h) == h

\* NodeInfo
NodeInfo(id, addr, nick, nsn) ==
    [Nickname |-> nick, ID |-> id, Address |-> addr, NoSuperNode |-> nsn]

\* SuperNodeInfo: a NodeInfo with role and liveness
SuperNodeInfo(ni, isSN, t) ==
    [Nickname |-> ni.Nickname, ID |-> ni.ID, Address |-> ni.Address,
     NoSuperNode |-> ni.NoSuperNode, IsSuperNode |-> isSN, LastActive |-> t]

\* Message (the timestamp is the clock at the send)
Message(room, sender, ts, content) ==
    [RoomID |-> room, Sender |-> sender, Timestamp |-> ts, Content |-> content]

NoMessage == Message("", "", 0, "")

\* the goroutines of one node
Goroutines == {"cli", "listener", "tcp", "caller"}

\* ---------------------------------------------------------------- state
VARIABLES
    now,            \* wall clock, seconds
    maxNodes,       \* AppConfig.MaxNodes
    cfgNoSuperNode, \* AppConfig.NoSuperNode, per host
    roomID,         \* p.Room.ID ("" = in no room)
    nodes,          \* p.Room.Nodes
    messageKey,     \* p.MessageKey
    password,       \* p.Room.Password
    running,        \* p.Running
    broadcasting,   \* the broadcastNodeInfo goroutine exists
    supernodes,     \* sm.supernodes
    isSuperNode,    \* sm.isSuperNode
    noSuperNode,    \* sm.noSuperNode
    superNodeMode,  \* sm.superNodeMode
    muHeld,         \* sm.mu is held by a goroutine that waits for it itself
    blocked,        \* goroutines that wait for sm.mu forever
    udp,            \* discovery datagrams waiting at a socket: [to, info]
    heard,          \* the peer ids whose datagrams have reached a socket
    tcp,            \* message frames in flight
    displayed,      \* lines a node has printed for messages
    log             \* what the latest operation did (its inputs and outputs)

vars == <<now, maxNodes, cfgNoSuperNode, roomID, nodes, messageKey, password,
          running, broadcasting, supernodes, isSuperNode, noSuperNode,
          superNodeMode, muHeld, blocked, udp, heard, tcp, displayed, log>>

roomVars == <<roomID, nodes, messageKey, password, running, broadcasting>>
mgrVars == <<supernodes, isSuperNode, noSuperNode, superNodeMode>>
lockVars == <<muHeld, blocked>>
netVars == <<udp, heard, tcp>>
logVars == <<displayed, log>>
cfgVars == <<maxNodes, cfgNoSuperNode>>

\* ------------------------------------------------------------- helpers
Range(s) == {s[i] : i \in 1..Len(s)}

RemoveAt(s, i) == SubSeq(s, 1, i - 1) \o SubSeq(s, i + 1, Len(s))

\* index of the first element of s with the given ID, 0 when there is none
RECURSIVE IndexFrom(_, _, _)
IndexFrom(s, id, i) ==
    IF i > Len(s) THEN 0
    ELSE IF s[i].ID = id THEN i
    ELSE IndexFrom(s, id, i + 1)

IndexOfID(s, id) == IndexFrom(s, id, 1)


\* a log entry of a manager or discovery operation; before describes the
\* table the operation started from (kept for HandleNodeLeave only)
OpRecB(op, h, id, result, before) ==
    [host |-> h, id |-> id, op |-> op, result |-> result, before |-> before]
OpRec(op, h, id, result) == OpRecB(op, h, id, result, <<>>)
NoOp == OpRec("none", "", Addr("", 0), "none")

\* ------------------------------------------------- SuperNode manager (pure)
\* time.Since(sn.LastActive) < 30 * time.Second
IsLive(sn, t) == t - sn.LastActive < LivenessTimeout

\* a threshold test that already holds at the threshold
ShouldEnableSuperNodeMode_AtLeast(mode, nodeCount) ==
    mode /\ nodeCount >= RelayThreshold

\* ShouldEnableSuperNodeMode: relay mode is used for this number of members
ShouldEnableSuperNodeMode(mode, nodeCount) == mode /\ nodeCount > RelayThreshold

\* a GetSuperNodes that does not filter out timed-out records
GetSuperNodes_NoTimeout(tbl, t) ==
    LET Keep(sn) == sn.IsSuperNode IN SelectSeq(tbl, Keep)

\* GetSuperNodes: the live records whose IsSuperNode flag is set, in table order
GetSuperNodes(tbl, t) ==
    LET Keep(sn) == IsLive(sn, t) /\ sn.IsSuperNode IN SelectSeq(tbl, Keep)

\* GetRegularNodes: the live records whose IsSuperNode flag is not set
GetRegularNodes(tbl, t) ==
    LET Keep(sn) == IsLive(sn, t) /\ ~sn.IsSuperNode IN SelectSeq(tbl, Keep)

\* GetNode: found = FALSE stands for the nil pointer
GetNode(tbl, nodeID) ==
    LET i == IndexOfID(tbl, nodeID) IN
    IF i = 0
    THEN [NoSuperNode |-> FALSE, IsSuperNode |-> FALSE, found |-> FALSE]
    ELSE [NoSuperNode |-> tbl[i].NoSuperNode,
          IsSuperNode |-> tbl[i].IsSuperNode, found |-> TRUE]

\* GetBestSuperNodeForConnection: the first live SuperNode, or nil
GetBestSuperNodeForConnection(tbl, t) ==
    LET sns == GetSuperNodes(tbl, t) IN
    IF Len(sns) = 0 THEN [Address |-> NoAddr, found |-> FALSE]
    ELSE [Address |-> sns[1].Address, found |-> TRUE]

\* an AddNode that stores a fresh Regular record in place of a known one
AddNodeTo_ResetRole(tbl, nodeInfo, t) ==
    LET i == IndexOfID(tbl, nodeInfo.ID) IN
    IF i # 0 THEN [tbl EXCEPT ![i] = SuperNodeInfo(nodeInfo, FALSE, t)]
    ELSE Append(tbl, SuperNodeInfo(nodeInfo, FALSE, t))

\* AddNode: refresh the record with this ID, or append a Regular record
AddNodeTo(tbl, nodeInfo, t) ==
    LET i == IndexOfID(tbl, nodeInfo.ID) IN
    IF i # 0
    THEN [tbl EXCEPT ![i].Address = nodeInfo.Address,
                     ![i].Nickname = nodeInfo.Nickname,
                     ![i].NoSuperNode = nodeInfo.NoSuperNode,
                     ![i].LastActive = t]
    ELSE Append(tbl, SuperNodeInfo(nodeInfo, FALSE, t))

\* SetAsSuperNode
SetAsSuperNodeIn(tbl, nodeID, t) ==
    LET i == IndexOfID(tbl, nodeID) IN
    IF i # 0 THEN [tbl EXCEPT ![i].IsSuperNode = TRUE, ![i].LastActive = t]
    ELSE tbl

\* RemoveNode
RemoveNodeFrom(tbl, nodeID) ==
    LET i == IndexOfID(tbl, nodeID) IN
    IF i # 0 THEN RemoveAt(tbl, i) ELSE tbl

\* UpdateNodeActivity
UpdateNodeActivityIn(tbl, nodeID, t) ==
    LET i == IndexOfID(tbl, nodeID) IN
    IF i # 0 THEN [tbl EXCEPT ![i].LastActive = t] ELSE tbl

\* checkIfNodeIsNoSuperNode calls GetNode, which takes sm.mu in shared mode:
\* a caller that holds sm.mu exclusively waits for itself (blocks)
checkIfNodeIsNoSuperNode(tbl, nodeID, callerHoldsLock) ==
    [blocks |-> callerHoldsLock,
     value |-> GetNode(tbl, nodeID).found /\ GetNode(tbl, nodeID).NoSuperNode]

MgrResult(tbl, loc, res, id) ==
    [id |-> id, supernodes |-> tbl, isSuperNode |-> loc, result |-> res]

\* selectNewSuperNode, from table index j on; runs with sm.mu held exclusively
RECURSIVE selectNewSuperNodeFrom(_, _, _, _, _, _)
selectNewSuperNodeFrom(tbl, local, loc, nsn, t, j) ==
    IF j > Len(tbl)
    THEN MgrResult(tbl, IF ~nsn /\ ~loc THEN TRUE ELSE loc, "done", NoAddr)
    ELSE IF ~tbl[j].IsSuperNode /\ IsLive(tbl[j], t) /\ tbl[j].ID # local
    THEN LET c == checkIfNodeIsNoSuperNode(tbl, tbl[j].ID, TRUE) IN
         IF c.blocks THEN MgrResult(tbl, loc, "deadlock", tbl[j].ID)
         ELSE IF ~c.value
         THEN MgrResult([tbl EXCEPT ![j].IsSuperNode = TRUE, ![j].LastActive = t],
                        loc, "done", tbl[j].ID)
         ELSE selectNewSuperNodeFrom(tbl, local, loc, nsn, t, j + 1)
    ELSE selectNewSuperNodeFrom(tbl, local, loc, nsn, t, j + 1)

selectNewSuperNode(tbl, local, loc, nsn, t) ==
    selectNewSuperNodeFrom(tbl, local, loc, nsn, t, 1)

\* handleSuperNodeLeave: the leaving SuperNode is still in the table
handleSuperNodeLeave(tbl, local, loc, nsn, t) ==
    LET activeSuperNodes == Len(GetSuperNodes(tbl, t)) IN
    IF activeSuperNodes <= 1 THEN selectNewSuperNode(tbl, local, loc, nsn, t)
    ELSE MgrResult(tbl, loc, "done", NoAddr)

\* HandleNodeLeave
HandleNodeLeaveIn(tbl, local, loc, nsn, nodeID, t) ==
    LET i == IndexOfID(tbl, nodeID) IN
    IF i = 0 THEN MgrResult(tbl, loc, "done", NoAddr)
    ELSE IF tbl[i].IsSuperNode
    THEN LET r == handleSuperNodeLeave(tbl, local, loc, nsn, t) IN
         IF r.result = "deadlock" THEN r
         ELSE MgrResult(RemoveAt(r.supernodes, i), r.isSuperNode, "done", r.id)
    ELSE MgrResult(RemoveAt(tbl, i), loc, "done", NoAddr)

\* the candidate loop of SelectInitialSuperNode, from table index j on
RECURSIVE initialCandidatesFrom(_, _, _, _)
initialCandidatesFrom(tbl, local, j, cands) ==
    IF j > Len(tbl) \/ Len(cands) >= InitialCandidates
    THEN [blocks |-> FALSE, candidates |-> cands]
    ELSE IF tbl[j].ID # local
    THEN LET c == checkIfNodeIsNoSuperNode(tbl, tbl[j].ID, TRUE) IN
         IF c.blocks THEN [blocks |-> TRUE, candidates |-> cands]
         ELSE IF ~c.value
         THEN initialCandidatesFrom(tbl, local, j + 1, Append(cands, tbl[j]))
         ELSE initialCandidatesFrom(tbl, local, j + 1, cands)
    ELSE initialCandidatesFrom(tbl, local, j + 1, cands)

\* SelectInitialSuperNode; unix is time.Now().Unix()
SelectInitialSuperNodeIn(tbl, local, loc, t, unix) ==
    LET c == initialCandidatesFrom(tbl, local, 1, <<>>) IN
    IF c.blocks THEN MgrResult(tbl, loc, "deadlock", NoAddr)
    ELSE IF Len(c.candidates) = 0 THEN MgrResult(tbl, loc, "none", NoAddr)
    ELSE LET selectedID == c.candidates[(unix % Len(c.candidates)) + 1].ID
             i == IndexOfID(tbl, selectedID)
         IN MgrResult([tbl EXCEPT ![i].IsSuperNode = TRUE, ![i].LastActive = t],
                      IF selectedID = local THEN TRUE ELSE loc, "done", selectedID)


\* ------------------------------------------------------- room credential
Key(name, len) == [name |-> name, len |-> len]
\* base64.StdEncoding.EncodeToString
Base64Encode(key) == [b64 |-> TRUE, bytes |-> key]
\* base64.StdEncoding.DecodeString
Base64Decode(pw) == [key |-> pw.bytes, ok |-> pw.b64]
NoKey == Key("", 0)
NoPassword == [b64 |-> FALSE, bytes |-> NoKey]

\* ------------------------------------------------------------ initial state
\* NewP2PChat on every host, for a configuration snapshot
\* every variable but the record of the latest operation
InitState(mn, cfg) ==
    /\ now = 0
    /\ maxNodes = mn
    /\ cfgNoSuperNode = cfg
    /\ roomID = [h \in Hosts |-> ""]
    /\ nodes = [h \in Hosts |-> <<>>]
    /\ messageKey = [h \in Hosts |-> NoKey]
    /\ password = [h \in Hosts |-> NoPassword]
    /\ running = [h \in Hosts |-> FALSE]
    /\ broadcasting = [h \in Hosts |-> FALSE]
    /\ supernodes = [h \in Hosts |-> <<>>]
    /\ isSuperNode = [h \in Hosts |-> FALSE]
    /\ noSuperNode = cfg
    /\ superNodeMode = [h \in Hosts |-> TRUE]
    /\ muHeld = [h \in Hosts |-> FALSE]
    /\ blocked = [h \in Hosts |-> {}]
    /\ udp = {}
    /\ heard = [h \in Hosts |-> {}]
    /\ tcp = {}
    /\ displayed = [h \in Hosts |-> {}]

InitWith(mn, cfg) == InitState(mn, cfg) /\ log = NoOp

\* ------------------------------------------------------------ session
\* StartUDPBroadcast: only a node whose first member is itself announces
StartsBroadcasting(ns, local) == Len(ns) > 0 /\ ns[1].Address = local

\* RunCLI's test "p.Room.ID != ''" before create and join
InRoom_Never(rid) == FALSE
InRoom(rid) == rid # ""

\* JoinRoom's test of the decoded room key
ValidKey_AnyLength(d) == d.ok
ValidKey(d) == d.ok /\ d.key.len = KeyLength

\* RunCLI "create": CreateRoom, StartUDPBroadcast, StartTCPListener
CreateRoom(p, rid, key) ==
    /\ ~InRoom(roomID[p])
    /\ "cli" \notin blocked[p]
    /\ LET localNode == NodeInfo(LocalAddress(p), LocalAddress(p), Nickname(p),
                                 cfgNoSuperNode[p])
           ns == Append(nodes[p], localNode)
       IN /\ nodes' = [nodes EXCEPT ![p] = ns]
          /\ broadcasting' = [broadcasting EXCEPT
                                ![p] = StartsBroadcasting(ns, LocalAddress(p))]
    /\ messageKey' = [messageKey EXCEPT ![p] = key]
    /\ roomID' = [roomID EXCEPT ![p] = rid]
    /\ password' = [password EXCEPT ![p] = Base64Encode(key)]
    /\ supernodes' = [supernodes EXCEPT ![p] = <<>>]
    /\ isSuperNode' = [isSuperNode EXCEPT ![p] = FALSE]
    /\ noSuperNode' = [noSuperNode EXCEPT ![p] = cfgNoSuperNode[p]]
    /\ superNodeMode' = [superNodeMode EXCEPT ![p] = TRUE]
    /\ running' = [running EXCEPT ![p] = TRUE]
    /\ log' = OpRec("CreateRoom", p, NoAddr, "ok")
    /\ UNCHANGED <<now, cfgVars, lockVars, netVars, displayed>>

\* RunCLI "join": JoinRoom, then StartUDPBroadcast, StartTCPListener
JoinRoom(p, rid, pw) ==
    /\ ~InRoom(roomID[p])
    /\ "cli" \notin blocked[p]
    /\ LET d == Base64Decode(pw) IN
       IF ~ValidKey(d)
       THEN /\ log' = OpRec("JoinRoom", p, NoAddr, "error")
            /\ UNCHANGED <<roomVars, mgrVars>>
       ELSE /\ roomID' = [roomID EXCEPT ![p] = rid]
            /\ messageKey' = [messageKey EXCEPT ![p] = d.key]
            /\ password' = [password EXCEPT ![p] = pw]
            /\ supernodes' = [supernodes EXCEPT ![p] = <<>>]
            /\ isSuperNode' = [isSuperNode EXCEPT ![p] = FALSE]
            /\ noSuperNode' = [noSuperNode EXCEPT ![p] = cfgNoSuperNode[p]]
            /\ superNodeMode' = [superNodeMode EXCEPT ![p] = TRUE]
            /\ running' = [running EXCEPT ![p] = TRUE]
            /\ broadcasting' = [broadcasting EXCEPT
                          ![p] = StartsBroadcasting(nodes[p], LocalAddress(p))]
            /\ log' = OpRec("JoinRoom", p, NoAddr, "ok")
            /\ UNCHANGED nodes
    /\ UNCHANGED <<now, cfgVars, lockVars, netVars, displayed>>

\* ------------------------------------------------------------ the clock
Tick ==
    /\ now < MaxTicks * TickSeconds
    /\ now' = now + TickSeconds
    /\ UNCHANGED <<cfgVars, roomVars, mgrVars, lockVars, netVars, logVars>>

\* what a table looks like to a caller of HandleNodeLeave(nodeID)
TableBefore(tbl, local, nodeID, t) ==
    LET Eligible(sn) == IsLive(sn, t) /\ ~sn.IsSuperNode /\ sn.ID # local
                        /\ ~sn.NoSuperNode
        i == IndexOfID(tbl, nodeID)
    IN [n |-> Len(tbl),
        liveRelays |-> Len(GetSuperNodes(tbl, t)),
        liveRegulars |-> Len(GetRegularNodes(tbl, t)),
        eligible |-> Len(SelectSeq(tbl, Eligible)),
        leavingLiveRelay |-> i # 0 /\ tbl[i].IsSuperNode /\ IsLive(tbl[i], t)]

\* -------------------------------------------- SuperNode manager (actions)
\* A call of goroutine g into the manager of host p that takes sm.mu:
\* it waits forever when the lock is held for good, it holds the lock for
\* good when it waits for itself (r.result = "deadlock"), and otherwise it
\* installs its result.
MgrCall(p, g, op, id, r, before) ==
    /\ g \notin blocked[p]
    /\ IF muHeld[p]
       THEN /\ blocked' = [blocked EXCEPT ![p] = @ \cup {g}]
            /\ log' = OpRecB(op, p, id, "blocked", before)
            /\ UNCHANGED <<supernodes, isSuperNode, muHeld>>
       ELSE IF r.result = "deadlock"
       THEN /\ muHeld' = [muHeld EXCEPT ![p] = TRUE]
            /\ blocked' = [blocked EXCEPT ![p] = @ \cup {g}]
            /\ log' = OpRecB(op, p, id, "deadlock", before)
            /\ UNCHANGED <<supernodes, isSuperNode>>
       ELSE /\ supernodes' = [supernodes EXCEPT ![p] = r.supernodes]
            /\ isSuperNode' = [isSuperNode EXCEPT ![p] = r.isSuperNode]
            /\ log' = OpRecB(op, p, id, r.result, before)
            /\ UNCHANGED lockVars
    /\ UNCHANGED <<now, cfgVars, roomVars, noSuperNode, superNodeMode, netVars,
                   displayed>>

AddNode(p, nodeInfo) ==
    MgrCall(p, "caller", "AddNode", nodeInfo.ID,
            MgrResult(AddNodeTo(supernodes[p], nodeInfo, now), isSuperNode[p],
                      IF IndexOfID(supernodes[p], nodeInfo.ID) # 0
                      THEN "refreshed" ELSE "added", nodeInfo.ID), <<>>)

SetAsSuperNode(p, nodeID) ==
    MgrCall(p, "caller", "SetAsSuperNode", nodeID,
            MgrResult(SetAsSuperNodeIn(supernodes[p], nodeID, now),
                      isSuperNode[p], "done", nodeID), <<>>)

SetLocalNodeAsSuperNode(p, b) ==
    MgrCall(p, "caller", "SetLocalNodeAsSuperNode", LocalAddress(p),
            MgrResult(supernodes[p], b, "done", LocalAddress(p)), <<>>)

RemoveNode(p, nodeID) ==
    MgrCall(p, "caller", "RemoveNode", nodeID,
            MgrResult(RemoveNodeFrom(supernodes[p], nodeID), isSuperNode[p],
                      "done", nodeID), <<>>)

UpdateNodeActivity(p, nodeID) ==
    MgrCall(p, "caller", "UpdateNodeActivity", nodeID,
            MgrResult(UpdateNodeActivityIn(supernodes[p], nodeID, now),
                      isSuperNode[p], "done", nodeID), <<>>)

HandleNodeLeave(p, nodeID) ==
    MgrCall(p, "caller", "HandleNodeLeave", nodeID,
            HandleNodeLeaveIn(supernodes[p], LocalAddress(p), isSuperNode[p],
                              noSuperNode[p], nodeID, now),
            TableBefore(supernodes[p], LocalAddress(p), nodeID, now))

SelectInitialSuperNode(p, unix) ==
    MgrCall(p, "caller", "SelectInitialSuperNode", NoAddr,
            SelectInitialSuperNodeIn(supernodes[p], LocalAddress(p),
                                     isSuperNode[p], now, unix), <<>>)

\* SetSuperNodeMode takes no lock
SetSuperNodeMode(p, enabled) ==
    /\ superNodeMode' = [superNodeMode EXCEPT ![p] = enabled]
    /\ log' = OpRec("SetSuperNodeMode", p, NoAddr, "done")
    /\ UNCHANGED <<now, cfgVars, roomVars, supernodes, isSuperNode, noSuperNode,
                   lockVars, netVars, displayed>>


\* ------------------------------------------------------------ discovery
\* the datagram broadcastNodeInfo sends: ID, Address and Nickname only
Announcement(p) == NodeInfo(LocalAddress(p), LocalAddress(p), Nickname(p), FALSE)

\* listenForBroadcasts: the defaults applied to a parsed datagram
Normalise(nodeInfo, src) ==
    IF nodeInfo.Address = NoAddr THEN [nodeInfo EXCEPT !.Address = src]
    ELSE nodeInfo

\* a membership test that looks at the latest member only
IsRoomNode_LastOnly(ns, id) == Len(ns) > 0 /\ ns[Len(ns)].ID = id

\* the loop "Check if node is in room"
IsRoomNode(ns, id) == \E i \in 1..Len(ns) : ns[i].ID = id

\* an election test that holds at every admission without a live SuperNode
ElectsAt_EveryAdmission(count, relays) == relays = 0 /\ count <= RelayThreshold

\* the listener's test before SelectInitialSuperNode: the room has just
\* reached 2 members and GetSuperNodes() is nil
ElectsAt(count, relays) == count = 2 /\ relays = 0 /\ count <= RelayThreshold

\* one iteration of the loop of listenForBroadcasts on the datagram received
ListenIteration(p, datagram, src, unix) ==
    /\ running[p]
    /\ "listener" \notin blocked[p]
    /\ LET nodeInfo == Normalise(datagram, src)
           ns == Append(nodes[p], nodeInfo)
           tbl == AddNodeTo(supernodes[p], nodeInfo, now)
           r == SelectInitialSuperNodeIn(tbl, LocalAddress(p), isSuperNode[p],
                                         now, unix)
       IN
       IF IsRoomNode(nodes[p], nodeInfo.ID) \/ nodeInfo.ID = LocalAddress(p)
       THEN /\ log' = OpRec("Listen", p, nodeInfo.ID, "ignored")
            /\ UNCHANGED <<nodes, supernodes, isSuperNode, lockVars>>
       ELSE IF Len(nodes[p]) >= maxNodes
       THEN /\ log' = OpRec("Listen", p, nodeInfo.ID, "refused")
            /\ UNCHANGED <<nodes, supernodes, isSuperNode, lockVars>>
       ELSE /\ nodes' = [nodes EXCEPT ![p] = ns]
            /\ IF muHeld[p]
               THEN \* AddNode waits for sm.mu
                    /\ blocked' = [blocked EXCEPT ![p] = @ \cup {"listener"}]
                    /\ log' = OpRec("Listen", p, nodeInfo.ID, "blocked")
                    /\ UNCHANGED <<supernodes, isSuperNode, muHeld>>
               ELSE IF ElectsAt(Len(ns), Len(GetSuperNodes(tbl, now)))
               THEN IF r.result = "deadlock"
                    THEN /\ supernodes' = [supernodes EXCEPT ![p] = tbl]
                         /\ muHeld' = [muHeld EXCEPT ![p] = TRUE]
                         /\ blocked' = [blocked EXCEPT
                                          ![p] = @ \cup {"listener"}]
                         /\ log' = OpRec("Listen", p, nodeInfo.ID, "deadlock")
                         /\ UNCHANGED isSuperNode
                    ELSE /\ supernodes' = [supernodes EXCEPT ![p] = r.supernodes]
                         /\ isSuperNode' = [isSuperNode EXCEPT
                                              ![p] = r.isSuperNode]
                         /\ log' = OpRec("Listen", p, nodeInfo.ID, "elected")
                         /\ UNCHANGED lockVars
               ELSE /\ supernodes' = [supernodes EXCEPT ![p] = tbl]
                    /\ log' = OpRec("Listen", p, nodeInfo.ID, "admitted")
                    /\ UNCHANGED <<isSuperNode, lockVars>>
    /\ UNCHANGED <<now, cfgVars, roomID, messageKey, password, running,
                   broadcasting, noSuperNode, superNodeMode, heard, tcp,
                   displayed>>

\* a datagram of some sender on the subnet reaches the socket of p
listenForBroadcasts(p, datagram, unix) ==
    /\ ListenIteration(p, datagram, Addr(datagram.ID.host, EphemeralPort), unix)
    /\ UNCHANGED udp

\* one period of the ticker of broadcastNodeInfo: a datagram to every socket
broadcastNodeInfo(p) ==
    /\ running[p]
    /\ broadcasting[p]
    /\ udp' = udp \cup {[to |-> h, info |-> Announcement(p)] :
                          h \in {q \in Hosts : running[q]}}
    /\ heard' = [h \in Hosts |-> IF running[h]
                                 THEN heard[h] \cup {LocalAddress(p)}
                                 ELSE heard[h]]
    /\ log' = OpRec("broadcastNodeInfo", p, LocalAddress(p), "sent")
    /\ UNCHANGED <<now, cfgVars, roomVars, mgrVars, lockVars, tcp, displayed>>

\* the listener of p reads a datagram that is in flight to it
ReceiveBroadcast(p, unix) ==
    \E d \in udp :
        /\ d.to = p
        /\ ListenIteration(p, d.info, Addr(d.info.ID.host, EphemeralPort), unix)
        /\ udp' = udp \ {d}


\* ------------------------------------------------------------ codec
\* encryptAES under a key (the random IV is not modelled)
encryptAES(key, message) == [key |-> key, plain |-> message]
\* plaintext bytes that are not the JSON of a Message
NotJSON == Message("", "", 0, "not json")
\* decryptAES followed by json.Unmarshal: only the key that encrypted the
\* frame gives back the message, and only when the plaintext is JSON
decryptAES(key, data) ==
    IF data.key = key /\ data.plain # NotJSON
    THEN [ok |-> TRUE, message |-> data.plain]
    ELSE [ok |-> FALSE, message |-> NoMessage]

\* a frame on a connection from host `from`, whose socket address the
\* receiver sees as `remote`; hops counts the relays that forwarded it
Frame(to, from, remote, data, hops) ==
    [to |-> to, data |-> data, from |-> from, remote |-> remote, hops |-> hops]

Addresses(s) == [i \in 1..Len(s) |-> s[i].Address]

\* ------------------------------------------------------------ SendMessage
\* a fan-out loop that skips nobody
DirectDials_IncludingSelf(ns, local) == Addresses(ns)

\* the direct fan-out loop: one dial per member that is not the local node
DirectDials(ns, local) ==
    LET Other(n) == n.Address # local IN Addresses(SelectSeq(ns, Other))

\* the lines "Me:" printed by the direct fan-out loop
DirectEchoes(ns, local) ==
    LET Self(n) == n.Address = local
        k == Len(SelectSeq(ns, Self))
    IN IF k > 0 THEN k ELSE 1

\* a forward that dials every live record, whatever its role
ForwardDials_AllLive(tbl, local, t) ==
    LET Other(sn) == IsLive(sn, t) /\ sn.Address # local
    IN Addresses(SelectSeq(tbl, Other))

\* ForwardMessageToSuperNodes: one dial per live SuperNode that is not local
ForwardDials(tbl, local, t) ==
    LET Other(sn) == sn.Address # local
    IN Addresses(SelectSeq(GetSuperNodes(tbl, t), Other))

\* a routing decision that asks for a live SuperNode before it looks at the
\* local role
SendBranch_RelayFirst(mode, ns, loc, tbl, t) ==
    IF ShouldEnableSuperNodeMode(mode, Len(ns))
    THEN IF GetBestSuperNodeForConnection(tbl, t).found THEN "relay"
         ELSE IF loc THEN "forward"
         ELSE "fallback"
    ELSE "direct"

\* the routing decision of SendMessage
SendBranch(mode, ns, loc, tbl, t) ==
    IF ShouldEnableSuperNodeMode(mode, Len(ns))
    THEN IF loc THEN "forward"
         ELSE IF GetBestSuperNodeForConnection(tbl, t).found THEN "relay"
         ELSE "fallback"
    ELSE "direct"

SendDials(branch, ns, tbl, local, t) ==
    IF branch = "forward" THEN ForwardDials(tbl, local, t)
    ELSE IF branch = "relay"
    THEN <<GetBestSuperNodeForConnection(tbl, t).Address>>
    ELSE DirectDials(ns, local)

\* ok: the dials (by position) whose connect and write succeed
SendEchoes(branch, ns, local, ok) ==
    IF branch = "forward" THEN 1
    ELSE IF branch = "relay" THEN (IF 1 \in ok THEN 1 ELSE 0)
    ELSE DirectEchoes(ns, local)

MeLine(message) == [room |-> message.RoomID, sender |-> "Me",
                    content |-> message.Content, kind |-> "Me"]
MsgLine(message) == [room |-> message.RoomID, sender |-> message.Sender,
                     content |-> message.Content, kind |-> "msg"]

\* a fan-out that ends at the first dial that fails
Delivered_UntilFailure(ok) == {i \in ok : \A j \in 1..i : j \in ok}

\* every target has a goroutine of its own: the dials whose connect and
\* write succeed deliver their frame whatever the other dials do
Delivered(ok) == ok

\* SendMessage, called by RunCLI for a line that is not a command
SendMessageCall(p, content, ok, srcPort) ==
    /\ roomID[p] # ""
    /\ "cli" \notin blocked[p]
    /\ LET message == Message(roomID[p], Nickname(p), now, content)
           relayMode == ShouldEnableSuperNodeMode(superNodeMode[p], Len(nodes[p]))
           branch == SendBranch(superNodeMode[p], nodes[p], isSuperNode[p],
                                supernodes[p], now)
           dials == SendDials(branch, nodes[p], supernodes[p], LocalAddress(p), now)
           echoes == SendEchoes(branch, nodes[p], LocalAddress(p), ok)
       IN
       IF relayMode /\ muHeld[p]
       THEN \* IsLocalNodeSuperNode waits for sm.mu
            /\ blocked' = [blocked EXCEPT ![p] = @ \cup {"cli"}]
            /\ log' = [host |-> p, op |-> "SendMessage", ok |-> {},
                           count |-> Len(nodes[p]), branch |-> "blocked", dials |-> <<>>,
                           echoes |-> 0, returned |-> FALSE]
            /\ UNCHANGED <<displayed, tcp, muHeld>>
       ELSE /\ ok \subseteq 1..Len(dials)
            /\ log' = [host |-> p, op |-> "SendMessage", ok |-> ok,
                           count |-> Len(nodes[p]), branch |-> branch, dials |-> dials,
                           echoes |-> echoes, returned |-> TRUE]
            /\ displayed' = [displayed EXCEPT
                  ![p] = IF echoes > 0 THEN @ \cup {MeLine(message)} ELSE @]
            /\ tcp' = tcp \cup
                  {Frame(dials[i], p, Addr(p, srcPort),
                         encryptAES(messageKey[p], message), 0) :
                   i \in {j \in Delivered(ok) : running[dials[j].host]}}
            /\ UNCHANGED lockVars
    /\ UNCHANGED <<now, cfgVars, roomVars, mgrVars, udp, heard>>


\* ---------------------------------------------------- handleTCPConnection
\* the loop "Forward to all regular nodes": the members dialled
RegularPass(ns, tbl, local, remoteAddr) ==
    LET Target(n) == /\ n.Address # local
                     /\ n.Address # remoteAddr
                     /\ ~(GetNode(tbl, n.Address).found
                          /\ GetNode(tbl, n.Address).IsSuperNode)
    IN Addresses(SelectSeq(ns, Target))

\* the loop "Forward to other SuperNodes too": the SuperNodes dialled
RelayPass(tbl, local, remoteAddr, t) ==
    LET Target(sn) == sn.Address # local /\ sn.Address # remoteAddr
    IN Addresses(SelectSeq(GetSuperNodes(tbl, t), Target))

\* a handler that forwards whenever the local node is a SuperNode
Forwards_AnyRelay(mode, ns, loc) == loc

\* the handler forwards iff relay mode is on for the member count and the
\* local node is a SuperNode
Forwards(mode, ns, loc) == ShouldEnableSuperNodeMode(mode, Len(ns)) /\ loc

\* a handler that does not compare the room of a message
Accepts_AnyRoom(d, rid) == d.ok

\* the handler uses a frame only if it decrypts, decodes and is for the
\* local room; otherwise it goes on to the next read
Accepts(d, rid) == d.ok /\ d.message.RoomID = rid

\* handleTCPConnection for one frame read from an accepted connection;
\* ok: the forward dials (by position, Regular pass first) that succeed
handleTCPConnection(p, frame, ok, srcPort) ==
    /\ running[p]
    /\ frame.to = LocalAddress(p)
    /\ LET d == decryptAES(messageKey[p], frame.data)
           message == d.message
           relayMode == ShouldEnableSuperNodeMode(superNodeMode[p], Len(nodes[p]))
           fwd == Forwards(superNodeMode[p], nodes[p], isSuperNode[p])
           regular == IF fwd THEN RegularPass(nodes[p], supernodes[p],
                                              LocalAddress(p), frame.remote)
                      ELSE <<>>
           relays == IF fwd THEN RelayPass(supernodes[p], LocalAddress(p),
                                           frame.remote, now)
                     ELSE <<>>
           dials == regular \o relays
           entry(res, r1, r2, shown) ==
               [host |-> p, op |-> "handleTCPConnection", result |-> res,
                ok |-> ok, count |-> Len(nodes[p]), relays |-> r2,
                message |-> message, from |-> frame.from,
                remote |-> frame.remote, hops |-> frame.hops, regular |-> r1,
                shown |-> shown]
       IN
       IF ~Accepts(d, roomID[p])
       THEN /\ ok = {}
            /\ log' = entry("dropped", <<>>, <<>>, 0)
            /\ tcp' = tcp \ {frame}
            /\ UNCHANGED <<displayed, blocked>>
       ELSE IF relayMode /\ muHeld[p]
       THEN \* IsLocalNodeSuperNode waits for sm.mu: this handler never returns
            /\ ok = {}
            /\ log' = entry("blocked", <<>>, <<>>, 0)
            /\ blocked' = [blocked EXCEPT ![p] = @ \cup {"tcp"}]
            /\ tcp' = tcp \ {frame}
            /\ UNCHANGED displayed
       ELSE /\ ok \subseteq 1..Len(dials)
            /\ log' = entry(IF fwd THEN "forwarded" ELSE "displayed",
                             regular, relays, 1)
            /\ displayed' = [displayed EXCEPT ![p] = @ \cup {MsgLine(message)}]
            /\ tcp' = (tcp \ {frame}) \cup
                  {Frame(dials[i], p, Addr(p, srcPort),
                         encryptAES(messageKey[p], message), frame.hops + 1) :
                   i \in {j \in Delivered(ok) : running[dials[j].host]}}
            /\ UNCHANGED blocked
    /\ UNCHANGED <<now, cfgVars, roomVars, mgrVars, muHeld, udp, heard>>



\* ------------------------------------------------------ the environment
K1 == Key("K1", KeyLength)
\* what an operator may type as room key
Passwords == {Base64Encode(K1), Base64Encode(Key("short", 8)),
              [b64 |-> FALSE, bytes |-> K1]}
\* the order in which hosts are listed
HostOrder == <<"A", "B", "C", "D", "E", "Y", "X">>
RankOf(h) == CHOOSE i \in 1..Len(HostOrder) : HostOrder[i] = h
\* the datagrams the peers hs may send; those in optOut may say they opt out
DatagramsOf(hs, optOut) ==
    UNION {{NodeInfo(LocalAddress(h), LocalAddress(h), Nickname(h), nsn) :
              nsn \in {FALSE} \cup {h \in optOut}} : h \in hs}
IDsOf(hs) == {LocalAddress(h) : h \in hs}
\* the source ports a connection may be seen with
SourcePorts == {TCPPort, EphemeralPort}
\* the peers whose announcements are repeated
Repeaters == {"C"}
\* a datagram of a peer not yet in the table comes from the next host in order
InOrder(tbl, d) ==
    IF IndexOfID(tbl, d.ID) # 0 THEN d.ID.host \in Repeaters
    ELSE RankOf(d.ID.host) = Len(tbl) + 1

\* a datagram of a peer reaches the socket of p and waits to be read
Announce(p, d) ==
    /\ running[p]
    /\ udp' = udp \cup {[to |-> p, info |-> d]}
    /\ heard' = [heard EXCEPT ![p] = @ \cup {d.ID}]
    /\ UNCHANGED <<now, cfgVars, roomVars, mgrVars, lockVars, tcp, logVars>>

\* --------------------------------------- node X and the peers on its subnet
Peers == {"A", "B", "C", "D"}
\* the peers whose record is made a SuperNode from outside
RelayPeers == {"A"}
MaxNodesChoices == {2, 3}
\* what the peers announce, and the IDs the manager is called with
PeerDatagrams == DatagramsOf(Peers, {})
RelayIDs == IDsOf(RelayPeers)
UnixTimes == {0, 7}

Init == \E mn \in MaxNodesChoices :
            InitWith(mn, [h \in Hosts |-> FALSE])

Next ==
    \/ CreateRoom("X", "r1", K1)
    \/ \E pw \in Passwords : JoinRoom("X", "r1", pw)
    \/ \E d \in PeerDatagrams : Announce("X", d)
    \/ \E unix \in UnixTimes : ReceiveBroadcast("X", unix)
    \/ \E d \in PeerDatagrams :
          InOrder(supernodes["X"], d) /\ AddNode("X", d)
    \/ \E id \in RelayIDs : SetAsSuperNode("X", id)

Spec == Init /\ [][Next]_vars

\* ------------------------------------------- the SuperNode manager of X
MgrPeers == {"A", "B", "C", "D"}
\* the peers that may announce themselves as opted out
OptOutPeers == {"C"}
MgrDatagrams == DatagramsOf(MgrPeers, OptOutPeers)
MgrRelayIDs == IDsOf({"A", "C"})
MgrLeaverIDs == IDsOf({"A", "B"})

InitMgr == \E optOut \in BOOLEAN :
               InitWith(3, [h \in Hosts |-> h = "X" /\ optOut])

NextMgr ==
    \/ \E d \in MgrDatagrams :
          InOrder(supernodes["X"], d) /\ AddNode("X", d)
    \/ \E id \in MgrRelayIDs : SetAsSuperNode("X", id)
    \/ \E b \in BOOLEAN : SetLocalNodeAsSuperNode("X", b)
    \/ \E id \in MgrLeaverIDs : HandleNodeLeave("X", id)
    \/ \E unix \in UnixTimes : SelectInitialSuperNode("X", unix)
    \/ Tick

SpecMgr == InitMgr /\ [][NextMgr]_vars

\* ---------------------------------------------- the message router of X
RouterPeers == {"A", "B", "C", "D", "E", "Y"}
RouterDatagrams == DatagramsOf(RouterPeers, {})
\* the peer whose record is added and made a SuperNode from outside
RouterRelayDatagrams == DatagramsOf({"C"}, {})
RouterRelayIDs == IDsOf({"C"})
RouterMaxNodes == 6
\* the dials that succeed: the first k of them
DialOutcomes == {1..k : k \in 0..RouterMaxNodes}
\* either every dial succeeds or none does
AllOrNone(ok, dials) == ok = {} \/ Cardinality(ok) = Len(dials)
\* frames that arrive at X: from A with the room key, seen from A's listening
\* port or from an ephemeral one, and from A with another key
InboundFrames ==
    {Frame(LocalAddress("X"), "A", Addr("A", port),
           encryptAES(key, Message("r1", Nickname("A"), 0, "hi")), 0) :
       port \in SourcePorts, key \in {K1, Key("K2", KeyLength)}}
\* the members join in the order of HostOrder
MemberInOrder(ns, d) == IsRoomNode(ns, d.ID) \/ RankOf(d.ID.host) = Len(ns)

InitRouter == InitWith(RouterMaxNodes, [h \in Hosts |-> FALSE])

NextRouter ==
    \/ CreateRoom("X", "r1", K1)
    \/ \E d \in RouterDatagrams :
          MemberInOrder(nodes["X"], d) /\ listenForBroadcasts("X", d, 0)
    \/ \E d \in RouterRelayDatagrams : AddNode("X", d)
    \/ \E id \in RouterRelayIDs : SetAsSuperNode("X", id)
    \/ \E b \in BOOLEAN : SetLocalNodeAsSuperNode("X", b)
    \/ \E b \in BOOLEAN : SetSuperNodeMode("X", b)
    \/ \E ok \in DialOutcomes :
          /\ SendMessageCall("X", "hi", ok, EphemeralPort)
          /\ AllOrNone(ok, log'.dials)
    \/ \E f \in InboundFrames, ok \in DialOutcomes :
          /\ handleTCPConnection("X", f, ok, EphemeralPort)
          /\ AllOrNone(ok, log'.regular \o log'.relays)

SpecRouter == InitRouter /\ [][NextRouter]_vars

\* ------------------------------- creator X and joiner Y on one subnet
NetHosts == {"X", "Y"}
NetMaxNodes == 3

InitNet == InitWith(NetMaxNodes, [h \in Hosts |-> FALSE])

\* Y joins the room X created, with the password X prints
Create == CreateRoom("X", "r1", K1)
Join == roomID["X"] = "r1" /\ JoinRoom("Y", "r1", password["X"])
Broadcast == \E p \in NetHosts : broadcastNodeInfo(p)
Listen == \E p \in NetHosts : ReceiveBroadcast(p, 0)
\* the network loses nothing: every dial succeeds
Send ==
    \E p \in NetHosts, ok \in DialOutcomes, port \in SourcePorts :
        /\ SendMessageCall(p, "hi", ok, port)
        /\ Cardinality(ok) = Len(log'.dials)
Deliver ==
    \E f \in tcp, p \in NetHosts : handleTCPConnection(p, f, {}, EphemeralPort)

NextNet == Create \/ Join \/ Broadcast \/ Listen \/ Send \/ Deliver \/ Tick

\* the ticker, the listener loop and the connection handlers keep running,
\* and the users do create, join and send
SpecNet ==
    /\ InitNet /\ [][NextNet]_vars
    /\ WF_vars(Create) /\ WF_vars(Join) /\ WF_vars(Broadcast)
    /\ WF_vars(Listen) /\ WF_vars(Send) /\ WF_vars(Deliver)

\* ------------------------- two Relays X and Y with the peers A .. E
RelayHosts == {"X", "Y"}
RelayNetPeers == {"X", "Y", "A", "B", "C", "D", "E"}
RelayNetDatagrams == DatagramsOf(RelayNetPeers, {})
\* the order in which announcements are heard
RelayNetOrder == <<"Y", "X", "A", "B", "C", "D", "E">>
\* relays that handle one message, counted from its origin
MaxHops == 2

\* the first host of RelayNetOrder that p has not admitted
NextMember(p, h) ==
    /\ h # p /\ ~IsRoomNode(nodes[p], LocalAddress(h))
    /\ \E i \in 1..Len(RelayNetOrder) :
          /\ RelayNetOrder[i] = h
          /\ \A j \in 1..(i - 1) :
                RelayNetOrder[j] = p
                \/ IsRoomNode(nodes[p], LocalAddress(RelayNetOrder[j]))
\* the other Relay of the pair
Partner(p) == IF p = "X" THEN "Y" ELSE "X"

InitRelayNet == InitWith(RouterMaxNodes, [h \in Hosts |-> FALSE])

NextRelayNet ==
    \/ Create
    \/ Join
    \/ \E p \in RelayHosts, d \in RelayNetDatagrams :
          /\ d.ID = LocalAddress(Partner(p))
          /\ Len(nodes[p]) <= 1 /\ roomID[p] # ""
          /\ AddNode(p, d)
    \/ \E p \in RelayHosts :
          /\ Len(nodes[p]) <= 1
          /\ SetAsSuperNode(p, LocalAddress(Partner(p)))
    \/ \E p \in RelayHosts, d \in RelayNetDatagrams :
          /\ NextMember(p, d.ID.host)
          /\ listenForBroadcasts(p, d, 0)
    \/ \E p \in RelayHosts :
          /\ Len(nodes[p]) > RelayThreshold
          /\ SetLocalNodeAsSuperNode(p, TRUE)
    \/ \E f \in InboundFrames, ok \in DialOutcomes, port \in SourcePorts :
          /\ \A p \in RelayHosts : isSuperNode[p]
          /\ tcp = {}
          /\ handleTCPConnection("X", f, ok, port)
          /\ Cardinality(ok) = Len(log'.regular) + Len(log'.relays)
    \/ \E f \in tcp, p \in RelayHosts, ok \in DialOutcomes,
          port \in SourcePorts :
          /\ f.hops <= MaxHops
          /\ handleTCPConnection(p, f, ok, port)
          /\ Cardinality(ok) = Len(log'.regular) + Len(log'.relays)

SpecRelayNet == InitRelayNet /\ [][NextRelayNet]_vars


\* ======================================================= properties
NoDuplicateID(s) == \A i, j \in 1..Len(s) : s[i].ID = s[j].ID => i = j

\* no datagram is waiting that the listener of p will still read
Quiescent(p) == {d \in udp : d.to = p} = {} \/ "listener" \in blocked[p]

\* C1 (admission cap): the member sequence never holds more than MAX_NODES
\* entries; once MAX_NODES + 1 distinct peers have announced themselves and
\* the listener has nothing left to read, the room has exactly MAX_NODES
\* members; a refused peer is refused while the room is full.
C1_AdmissionCap ==
    \A p \in Hosts :
        /\ Len(nodes[p]) <= maxNodes
        /\ (Cardinality(heard[p] \ {LocalAddress(p)}) >= maxNodes + 1
            /\ Quiescent(p)) => Len(nodes[p]) = maxNodes
        /\ (log.op = "Listen" /\ log.host = p /\ log.result = "refused")
              => (Len(nodes[p]) = maxNodes /\ ~IsRoomNode(nodes[p], log.id))

C3_OptOutNeverRelay ==
    \A p \in Hosts :
        /\ \A i \in 1..Len(supernodes[p]) :
              ~(supernodes[p][i].NoSuperNode /\ supernodes[p][i].IsSuperNode)
        /\ ~(isSuperNode[p] /\ noSuperNode[p])

\* C4 as claimed: every record whose IsSuperNode flag is set is live.
C4_RelaysAreLive ==
    \A p \in Hosts : \A i \in 1..Len(supernodes[p]) :
        supernodes[p][i].IsSuperNode
            => now - supernodes[p][i].LastActive < LivenessTimeout

\* C4 as amended: the list GetSuperNodes returns holds exactly the records
\* that are flagged IsSuperNode and live (now - LastActive < 30s); the flag
\* of a record outlives its liveness.
C4_LiveRelayList ==
    \A p \in Hosts :
        LET sns == GetSuperNodes(supernodes[p], now) IN
        /\ \A k \in 1..Len(sns) :
              sns[k].IsSuperNode /\ now - sns[k].LastActive < LivenessTimeout
        /\ \A i \in 1..Len(supernodes[p]) :
              (supernodes[p][i].IsSuperNode
               /\ now - supernodes[p][i].LastActive < LivenessTimeout)
                  => \E k \in 1..Len(sns) : sns[k] = supernodes[p][i]

\* a table with a SuperNode whose timeout has passed next to a live one
C4_Witness ==
    \E i, j \in 1..Len(supernodes["X"]) :
        /\ supernodes["X"][i].IsSuperNode
        /\ now - supernodes["X"][i].LastActive >= LivenessTimeout
        /\ supernodes["X"][j].IsSuperNode
        /\ now - supernodes["X"][j].LastActive < LivenessTimeout
        /\ Len(GetSuperNodes(supernodes["X"], now)) = 1

\* C5 (failover): HandleNodeLeave of the only live Relay, called on a table
\* of that Relay and 3 live Regular peers, completes; afterwards the Relay is
\* gone and exactly one remaining peer is Relay - or, when none is eligible,
\* the local node is unless it opted out - and no opted-out peer is Relay.
C5_Failover ==
    (/\ log.op = "HandleNodeLeave"
     /\ log.before.n = 4 /\ log.before.liveRelays = 1
     /\ log.before.liveRegulars = 3 /\ log.before.leavingLiveRelay)
    => LET tbl == supernodes[log.host]
           relays == {i \in 1..Len(tbl) : tbl[i].IsSuperNode}
       IN /\ log.result = "done"
          /\ IndexOfID(tbl, log.id) = 0
          /\ Len(tbl) = 3
          /\ \A i \in relays : ~tbl[i].NoSuperNode
          /\ IF log.before.eligible > 0 THEN Cardinality(relays) = 1
             ELSE relays = {}
                  /\ (~noSuperNode[log.host] => isSuperNode[log.host])


\* C7 (local echo): every SendMessage that returns displays the sender's
\* own message exactly once, whatever the branch and the dial outcomes.
C7_LocalEcho ==
    (log.op = "SendMessage" /\ log.returned) => log.echoes = 1

\* C8 (loop avoidance): a local Relay that handles a frame from member A
\* forwards neither to A nor to itself; with members {self, A, B, C} where
\* C is a Relay and B Regular it forwards to exactly B in the Regular pass
\* and to exactly C in the Relay pass.
C8_LoopAvoidance ==
    (/\ log.op = "handleTCPConnection"
     /\ log.result \in {"forwarded", "displayed"}
     /\ isSuperNode[log.host]
     /\ IsRoomNode(nodes[log.host], LocalAddress(log.from)))
    => LET local == LocalAddress(log.host)
           ns == nodes[log.host]
           tbl == supernodes[log.host]
           targets == Range(log.regular) \cup Range(log.relays)
           Scenario ==
               /\ {ns[i].Address : i \in 1..Len(ns)} =
                     {local, LocalAddress("A"), LocalAddress("B"),
                      LocalAddress("C")}
               /\ log.from = "A"
               /\ \E i \in 1..Len(tbl) :
                     /\ tbl[i].ID = LocalAddress("C")
                     /\ tbl[i].IsSuperNode /\ IsLive(tbl[i], now)
               /\ \A i \in 1..Len(tbl) :
                     tbl[i].ID \in {LocalAddress("A"), LocalAddress("B")}
                        => ~tbl[i].IsSuperNode
       IN /\ LocalAddress(log.from) \notin targets
          /\ local \notin targets
          /\ Scenario => /\ log.regular = <<LocalAddress("B")>>
                         /\ log.relays = <<LocalAddress("C")>>

\* C10 (relay-mode threshold): relay mode is active for n members iff it is
\* enabled and n > 5 - as a function, and in every routing decision taken by
\* SendMessage and by the inbound handler.
C10_RelayModeThreshold ==
    /\ \A n \in 0..(maxNodes + 1) : \A m \in BOOLEAN :
          ShouldEnableSuperNodeMode(m, n) = (m /\ n > 5)
    /\ (log.op = "SendMessage" /\ log.returned)
          => ((log.branch # "direct")
                 <=> (superNodeMode[log.host] /\ log.count > 5))
    /\ (log.op = "handleTCPConnection" /\ log.result = "forwarded")
          => (superNodeMode[log.host] /\ log.count > 5)
    /\ (log.op = "handleTCPConnection" /\ log.result = "displayed"
        /\ isSuperNode[log.host])
          => ~(superNodeMode[log.host] /\ log.count > 5)

\* a message sent in relay mode by a node with 6 members
C10_Witness ==
    /\ log.op = "SendMessage" /\ log.returned
    /\ log.count = 6
    /\ log.branch \in {"forward", "relay", "fallback"}


\* C6 (end-to-end delivery): once X has created r1, Y has joined it with
\* X's password and X has sent "hi", Y eventually displays the message
\* {room r1, sender X, content hi}.
C6_Delivery ==
    (/\ roomID["Y"] = "r1" /\ messageKey["Y"] = messageKey["X"]
     /\ log.op = "SendMessage" /\ log.host = "X" /\ log.returned)
    ~> (MsgLine(Message("r1", Nickname("X"), 0, "hi")) \in displayed["Y"])


\* C9 (no re-forwarding): a node that receives a message a Relay forwarded
\* forwards it to nobody, and no frame in flight has been forwarded twice.
C9_NoReforward ==
    /\ (log.op = "handleTCPConnection" /\ log.hops >= 1)
          => (log.regular = <<>> /\ log.relays = <<>>)
    /\ \A f \in tcp : f.hops <= 1


\* ====================================================================
\* STUN resolution (stun.go)
\* ====================================================================
STUNBindingResponse == 257          \* 0x0101
STUNHeaderLength == 20
STUNMAGIC_COOKIE == 554869826       \* 0x2112A442
XorMappedAddress == 32              \* 0x0020
ResponseBufferSize == 1024          \* make([]byte, 1024)
NumServers == 3                     \* servers of the list that are modelled

\* the ordered server list of getPublicIPAndPort
stunServers == [i \in 1..NumServers |-> i]

\* a ^ b on w-bit unsigned integers
RECURSIVE BitXor(_, _, _)
BitXor(a, b, w) ==
    IF w = 0 THEN 0
    ELSE (((a % 2) + (b % 2)) % 2) + 2 * BitXor(a \div 2, b \div 2, w - 1)

uint16ToBytes(n) == <<(n \div 256) % 256, n % 256>>
bytesToUint16(b) == b[1] * 256 + b[2]
uint32ToBytes(n) ==
    <<(n \div 16777216) % 256, (n \div 65536) % 256, (n \div 256) % 256,
      n % 256>>

\* Go indexes from 0: data[i] and data[lo:hi]
At(data, i) == data[i + 1]
Slice(data, lo, hi) == SubSeq(data, lo + 1, hi)
\* a byte of the backing array: past len(data) the read buffer of
\* sendSTUNRequest still holds the zeroes make() put there
BackingAt(data, i) == IF i < Len(data) THEN data[i + 1] ELSE 0

\* port = xorPort ^ (STUNMAGIC_COOKIE >> 16), on the high half of the cookie
XorPort_LowCookie(xorPort) == BitXor(xorPort, STUNMAGIC_COOKIE % 65536, 16)
XorPort(xorPort) == BitXor(xorPort, STUNMAGIC_COOKIE \div 65536, 16)

\* ipBytes[i] = xorIP[i] ^ cookieBytes[i]; net.IP(ipBytes).String() is the
\* dotted quad of the four bytes, kept here as the 4-tuple of its numbers
XorIP(xorIP) ==
    [i \in 1..4 |-> BitXor(xorIP[i], uint32ToBytes(STUNMAGIC_COOKIE)[i], 8)]

NoIP == <<>>                        \* ip == ""

\* what a call of parseSTUNResponse comes to: the returned triple, or a
\* run-time panic; pastValue / pastData record that the address was read
\* from bytes behind the attribute's value / behind the datagram
ParseResult(ip, port, err, panicked, pastValue, pastData) ==
    [port |-> port, ip |-> ip, err |-> err, panicked |-> panicked,
     pastValue |-> pastValue, pastData |-> pastData]

ParseError(err) == ParseResult(NoIP, 0, err, FALSE, FALSE, FALSE)

\* the attribute loop, stun.go 149-190; capacity is cap(data)
RECURSIVE parseAttributes(_, _, _, _, _, _, _, _)
parseAttributes(data, capacity, attrsStart, attrsEnd, ip, port, pv, pd) ==
    LET Done == IF ip = NoIP
                THEN ParseError("mapped address not found in STUN response")
                ELSE ParseResult(ip, port, "", FALSE, pv, pd)
    IN IF attrsStart >= attrsEnd \/ attrsStart + 4 > attrsEnd THEN Done
       ELSE
         LET attrType == bytesToUint16(Slice(data, attrsStart, attrsStart + 2))
             attrLength ==
                 bytesToUint16(Slice(data, attrsStart + 2, attrsStart + 4))
             valueStart == attrsStart + 4
             next == valueStart + attrLength
                        + (IF attrLength % 4 # 0 THEN 4 - (attrLength % 4)
                           ELSE 0)
         IN IF valueStart + attrLength > attrsEnd THEN Done
            ELSE IF /\ attrType = XorMappedAddress
                    /\ attrLength >= 4
                    /\ At(data, valueStart + 1) = 1
                 THEN \* attrValue[4:8]: legal up to cap(attrValue)
                      IF 8 > capacity - valueStart
                      THEN ParseResult(NoIP, 0, "", TRUE, FALSE, FALSE)
                      ELSE parseAttributes(data, capacity, next, attrsEnd,
                              XorIP([i \in 1..4 |->
                                       BackingAt(data, valueStart + 3 + i)]),
                              XorPort(bytesToUint16(
                                  Slice(data, valueStart + 2, valueStart + 4))),
                              pv \/ attrLength < 8,
                              pd \/ valueStart + 8 > Len(data))
                 ELSE parseAttributes(data, capacity, next, attrsEnd,
                                      ip, port, pv, pd)

parseSTUNResponse(data, capacity) ==
    IF Len(data) < STUNHeaderLength
    THEN ParseError("response data too short")
    ELSE IF bytesToUint16(Slice(data, 0, 2)) # STUNBindingResponse
    THEN ParseError("invalid STUN response type")
    ELSE IF Len(data) < STUNHeaderLength + bytesToUint16(Slice(data, 2, 4))
    THEN ParseError("response data incomplete")
    ELSE parseAttributes(data, capacity, STUNHeaderLength,
             STUNHeaderLength + bytesToUint16(Slice(data, 2, 4)),
             NoIP, 0, FALSE, FALSE)

\* sendSTUNRequest: a server that cannot be resolved or reached, or whose
\* answer does not come within the read deadline, is an error; an answer
\* is parsed as response[:n] of the 1024-byte read buffer
sendSTUNRequest(reply) ==
    IF reply.kind = "timeout" THEN ParseError("i/o timeout")
    ELSE parseSTUNResponse(reply.data, ResponseBufferSize)

\* getLocalIP: the address of the outbound interface, or the loopback
\* address when no route exists
getLocalIP(h, routed) ==
    IF routed THEN <<10, 0, 0, RankOf(h)>> ELSE <<127, 0, 0, 1>>

ResolveResult(ip, port, err, panicked, contacted) ==
    [port |-> port, ip |-> ip, err |-> err, panicked |-> panicked,
     contacted |-> contacted]

\* the loop of getPublicIPAndPort from server i on; replies[i] is what
\* server i does when asked
RECURSIVE ResolveFrom(_, _, _, _)
ResolveFrom(replies, i, contacted, localIP) ==
    IF i > Len(stunServers)
    THEN ResolveResult(localIP, TCPPort, "", FALSE, contacted)
    ELSE LET r == sendSTUNRequest(replies[i])
         IN IF r.panicked
            THEN ResolveResult(NoIP, 0, "", TRUE, Append(contacted, i))
            ELSE IF r.err = ""
            THEN ResolveResult(r.ip, r.port, "", FALSE, Append(contacted, i))
            ELSE ResolveFrom(replies, i + 1, Append(contacted, i), localIP)

\* a resolver that gives up with the first server's error
getPublicIPAndPort_FirstOnly(h, replies, routed) ==
    LET r == sendSTUNRequest(replies[1])
    IN ResolveResult(r.ip, r.port, r.err, r.panicked, <<1>>)

getPublicIPAndPort(h, replies, routed) ==
    ResolveFrom(replies, 1, <<>>, getLocalIP(h, routed))


\* ---------------------------------------------------- STUN: the inputs
\* a binding response as a server builds it: header with a zero
\* transaction ID, then the attributes
Response(type, attrs) ==
    uint16ToBytes(type) \o uint16ToBytes(Len(attrs))
       \o uint32ToBytes(STUNMAGIC_COOKIE) \o [i \in 1..12 |-> 0] \o attrs

\* an attribute with a declared length, its value padded to 4 bytes
AttributeOfLength(type, length, value) ==
    uint16ToBytes(type) \o uint16ToBytes(length) \o value
       \o [i \in 1..((4 - (Len(value) % 4)) % 4) |-> 0]
Attribute(type, value) == AttributeOfLength(type, Len(value), value)

\* XOR-MAPPED-ADDRESS of RFC 5389 for IPv4: reserved byte, family 1,
\* port ^ 0x2112, address ^ 21 12 A4 42
XorMappedValue(a, p) ==
    <<0, 1>> \o uint16ToBytes(BitXor(p, 8466, 16))
       \o <<BitXor(a[1], 33, 8), BitXor(a[2], 18, 8),
            BitXor(a[3], 164, 8), BitXor(a[4], 66, 8)>>

\* a datagram, what it is (kind) and the address and port it encodes
StunInput(kind, data, a, p) == [p |-> p, data |-> data, kind |-> kind, a |-> a]

StunInputs ==
    LET Addrs == {<<192, 0, 2, 1>>, <<33, 18, 164, 66>>}
        Ports == {8080, 8466, 65535}
        Software == Attribute(32802, <<1, 2, 3>>)
        \* SOFTWARE (3 bytes, padded), MAPPED-ADDRESS, an empty attribute
        Others == {Software, Attribute(1, <<0, 1, 31, 144, 192, 0, 2, 1>>),
                   Attribute(32808, <<>>)}
        Prefixes == {<<>>} \cup Others \cup {x \o y : x \in Others, y \in Others}
        Value == XorMappedValue(<<192, 0, 2, 1>>, 8080)
        Good == Response(STUNBindingResponse,
                         Software \o Attribute(XorMappedAddress, Value))
    IN  {StunInput("wellformed",
                   Response(STUNBindingResponse,
                            pre \o Attribute(XorMappedAddress,
                                             XorMappedValue(a, p))),
                   a, p) : pre \in Prefixes, a \in Addrs, p \in Ports}
        \cup
        \* an IPv4 XOR-MAPPED-ADDRESS whose value has only 4..7 of its 8
        \* bytes, last in the datagram or followed by another attribute
        {StunInput("shortvalue",
                   Response(STUNBindingResponse,
                            pre \o Attribute(XorMappedAddress,
                                             SubSeq(Value, 1, n)) \o post),
                   NoIP, 0) :
            pre \in {<<>>, Software}, n \in 4..7, post \in {<<>>, Software}}
        \cup
        \* the same attribute at the very end of a datagram that fills the
        \* read buffer of sendSTUNRequest
        {StunInput("shortvalue",
                   Response(STUNBindingResponse,
                            Attribute(32802,
                                [i \in 1..(ResponseBufferSize - 32) |-> 0])
                               \o Attribute(XorMappedAddress, SubSeq(Value, 1, 4))),
                   NoIP, 0)}
        \cup
        \* an attribute whose declared length runs past the declared region
        {StunInput("pastregion",
                   Response(STUNBindingResponse,
                            pre \o AttributeOfLength(XorMappedAddress, n,
                                                     SubSeq(Value, 1, 4))),
                   NoIP, 0) : pre \in {<<>>, Software}, n \in {8, 12}}
        \cup
        {StunInput("short", SubSeq(Good, 1, n), NoIP, 0) : n \in {0, 10, 19}}
        \cup
        {StunInput("wrongtype",
                   Response(t, Attribute(XorMappedAddress, Value)), NoIP, 0) :
            t \in {1, 273}}
        \cup
        {StunInput("incomplete", SubSeq(Good, 1, Len(Good) - k), NoIP, 0) :
            k \in {1, 4, 12}}
        \cup
        {StunInput("missing", Response(STUNBindingResponse, pre), NoIP, 0) :
            pre \in Prefixes}

\* what one server may do when asked: no answer in time, or one datagram
\* of each kind (two well-formed ones, the truncated one that fills the
\* read buffer)
ServerReplies ==
    {StunInput("timeout", <<>>, NoIP, 0)}
    \cup {CHOOSE x \in StunInputs : x.kind = "wellformed" /\ x.a = a :
             a \in {<<192, 0, 2, 1>>, <<33, 18, 164, 66>>}}
    \cup {CHOOSE x \in StunInputs : x.kind = k :
             k \in {"short", "wrongtype", "incomplete", "missing"}}
    \cup {x \in StunInputs :
             x.kind = "shortvalue" /\ Len(x.data) = ResponseBufferSize}

\* --------------------------------------------------- STUN: the actions
\* a call is pending with its arguments, then it has returned
ParseCall ==
    /\ log.op = "call parseSTUNResponse"
    /\ log' = [op |-> "parseSTUNResponse", result |-> parseSTUNResponse(log.input.data, log.capacity),
               capacity |-> log.capacity,
               input |-> log.input]
    /\ UNCHANGED <<now, cfgVars, roomVars, mgrVars, lockVars, netVars,
                   displayed>>

ResolveCall ==
    /\ log.op = "call getPublicIPAndPort"
    /\ log' = [host |-> log.host, op |-> "getPublicIPAndPort",
               result |-> getPublicIPAndPort(log.host, log.replies,
                                             log.routed), routed |-> log.routed,
               replies |-> log.replies]
    /\ UNCHANGED <<now, cfgVars, roomVars, mgrVars, lockVars, netVars,
                   displayed>>

\* cap(data): the slice is the whole array, or response[:n] of the buffer
StunCalls ==
    UNION {{[op |-> "call parseSTUNResponse", capacity |-> c,
             input |-> input] : c \in {Len(input.data), ResponseBufferSize}} :
           input \in StunInputs}
    \cup
    {[host |-> "X", op |-> "call getPublicIPAndPort", routed |-> routed,
      replies |-> replies] :
        replies \in [1..NumServers -> ServerReplies], routed \in BOOLEAN}

InitStun ==
    /\ InitState(3, [h \in Hosts |-> FALSE])
    /\ log \in StunCalls

NextStun == ParseCall \/ ResolveCall

SpecStun == InitStun /\ [][NextStun]_vars

\* C11 (ordered, infallible NAT resolution): a call of the resolver
\* contacts the servers 1, 2, ... in list order, stops at the first one
\* that yields a mapped address and returns that address; when every
\* server fails (timeout, malformed response, missing attribute) it has
\* contacted all of them and returns the local address with the default
\* port; it never ends in an error or a crash.
C11_ResolutionOrdered ==
    (log.op = "getPublicIPAndPort") =>
       LET r == log.result
           n == Len(r.contacted)
       IN /\ ~r.panicked
          /\ r.err = ""
          /\ r.contacted = [i \in 1..n |-> i]
          /\ \A i \in 1..(n - 1) : log.replies[i].kind # "wellformed"
          /\ IF n >= 1 /\ log.replies[n].kind = "wellformed"
             THEN r.ip = log.replies[n].a /\ r.port = log.replies[n].p
             ELSE /\ n = NumServers
                  /\ r.ip = getLocalIP(log.host, log.routed)
                  /\ r.port = TCPPort

\* C12 (XOR-MAPPED-ADDRESS): parsing a well-formed binding response whose
\* one IPv4 XOR-MAPPED-ADDRESS encodes address a and port p, after any
\* padded attributes, returns exactly (a, p) and no error.
C12_XorMappedAddress ==
    (log.op = "parseSTUNResponse" /\ log.input.kind = "wellformed") =>
       /\ log.result.err = "" /\ ~log.result.panicked
       /\ log.result.ip = log.input.a
       /\ log.result.port = log.input.p
       /\ ~log.result.pastValue /\ ~log.result.pastData

\* a response with a padded attribute before the address has been parsed
C12_Witness ==
    /\ log.op = "parseSTUNResponse" /\ log.input.kind = "wellformed"
    /\ Len(log.input.data) = 20 + 8 + 12
    /\ log.result.ip = <<192, 0, 2, 1>> /\ log.result.port = 8080

\* C13 (truncated attribute): parsing a response with a truncated
\* attribute returns 'mapped address not found' and reads no byte behind
\* the attribute's value or behind the datagram.
C13_TruncatedNotFound ==
    (log.op = "parseSTUNResponse"
     /\ log.input.kind \in {"shortvalue", "pastregion"}) =>
       /\ ~log.result.panicked
       /\ log.result.err = "mapped address not found in STUN response"
       /\ ~log.result.pastValue /\ ~log.result.pastData

\* C14 (malformed datagram is a per-server failure): a datagram that is
\* shorter than the header, of another type, or shorter than it declares
\* makes the parser return an error without a panic, and the resolver then
\* asks the next server, or falls back after the last one.
C14_MalformedRecoverable ==
    /\ (log.op = "parseSTUNResponse"
        /\ log.input.kind \in {"short", "wrongtype", "incomplete"}) =>
          /\ ~log.result.panicked
          /\ log.result.err \in {"response data too short",
                                 "invalid STUN response type",
                                 "response data incomplete"}
          /\ log.result.ip = NoIP
    /\ (log.op = "getPublicIPAndPort") =>
          \A i \in 1..Len(log.result.contacted) :
             log.replies[i].kind \in {"short", "wrongtype", "incomplete"} =>
                IF i < NumServers
                THEN Len(log.result.contacted) > i
                     /\ log.result.contacted[i + 1] = i + 1
                ELSE /\ log.result.err = "" /\ ~log.result.panicked
                     /\ log.result.ip = getLocalIP(log.host, log.routed)
                     /\ log.result.port = TCPPort

\* the first server answered with a wrong message type and the second
\* server's address was returned
C14_Witness ==
    /\ log.op = "getPublicIPAndPort"
    /\ log.replies[1].kind = "wrongtype"
    /\ log.replies[2].kind = "wellformed"
    /\ log.result.contacted = <<1, 2>>
    /\ log.result.ip = log.replies[2].a /\ log.result.err = ""


\* ====================================================================
\* The message codec on bytes (supernode.go 367-449)
\* ====================================================================
BlockSize == 16                     \* aes.BlockSize
MaxPlainLen == 33                   \* longest plaintext that is encrypted

\* the block cipher under a key: a bijection on 16-byte blocks
EncryptBlock(key, b) ==
    [i \in 1..BlockSize |-> (b[i] + key[((i - 1) % Len(key)) + 1] + i) % 256]
DecryptBlock(key, b) ==
    [i \in 1..BlockSize |->
        (b[i] + 512 - key[((i - 1) % Len(key)) + 1] - i) % 256]
XorBlock(x, y) == [i \in 1..BlockSize |-> BitXor(x[i], y[i], 8)]

\* aes.NewCipher accepts keys of 16, 24 or 32 bytes
NewCipherOK(key) == Len(key) \in {16, 24, 32}

\* cipher.NewCBCEncrypter(block, iv).CryptBlocks; prev is the IV or the
\* preceding ciphertext block
RECURSIVE cbcEncrypt(_, _, _)
cbcEncrypt(key, prev, data) ==
    IF Len(data) = 0 THEN <<>>
    ELSE LET c == EncryptBlock(key, XorBlock(SubSeq(data, 1, BlockSize), prev))
         IN c \o cbcEncrypt(key, c, SubSeq(data, BlockSize + 1, Len(data)))

RECURSIVE cbcDecrypt(_, _, _)
cbcDecrypt(key, prev, data) ==
    IF Len(data) = 0 THEN <<>>
    ELSE LET c == SubSeq(data, 1, BlockSize)
         IN XorBlock(DecryptBlock(key, c), prev)
               \o cbcDecrypt(key, c, SubSeq(data, BlockSize + 1, Len(data)))

\* a byte slice or an error; a failed call returns nil
CodecResult(bytes, err, panicked) ==
    [bytes |-> bytes, err |-> err, panicked |-> panicked]
CodecError(err) == CodecResult(<<>>, err, FALSE)

\* a padding that adds nothing to a whole number of blocks
pkcs7Pad_NoFullBlock(data, blockSize) ==
    data \o [i \in 1..((blockSize - (Len(data) % blockSize)) % blockSize) |->
                (blockSize - (Len(data) % blockSize)) % blockSize]

pkcs7Pad(data, blockSize) ==
    LET padding == blockSize - (Len(data) % blockSize)
    IN data \o [i \in 1..padding |-> padding]

\* an unpadding that trusts the last byte
pkcs7Unpad_NoValidate(data, blockSize) ==
    IF Len(data) = 0 THEN CodecError("data is empty")
    ELSE IF data[Len(data)] > blockSize \/ data[Len(data)] = 0
    THEN CodecError("invalid padding")
    ELSE IF data[Len(data)] > Len(data) THEN CodecResult(<<>>, "", TRUE)
    ELSE CodecResult(SubSeq(data, 1, Len(data) - data[Len(data)]), "", FALSE)

pkcs7Unpad(data, blockSize) ==
    IF Len(data) = 0 THEN CodecError("data is empty")
    ELSE LET padding == data[Len(data)]
         IN IF padding > blockSize \/ padding = 0
            THEN CodecError("invalid padding")
            ELSE IF padding > Len(data)
            THEN CodecResult(<<>>, "", TRUE)    \* data[len(data)-padding]
            ELSE IF \E i \in (Len(data) - padding + 1)..Len(data) :
                       data[i] # padding
            THEN CodecError("invalid padding")
            ELSE CodecResult(SubSeq(data, 1, Len(data) - padding), "", FALSE)

\* encryptAES with the IV that rand.Reader delivered
encryptAESBytes(key, iv, data) ==
    IF ~NewCipherOK(key) THEN CodecError("crypto/aes: invalid key size")
    ELSE CodecResult(iv \o cbcEncrypt(key, iv, pkcs7Pad(data, BlockSize)),
                     "", FALSE)

decryptAESBytes(key, data) ==
    IF ~NewCipherOK(key) THEN CodecError("crypto/aes: invalid key size")
    ELSE IF Len(data) < BlockSize THEN CodecError("ciphertext too short")
    ELSE IF (Len(data) - BlockSize) % BlockSize # 0
    THEN CodecError("ciphertext length not multiple of block size")
    ELSE pkcs7Unpad(cbcDecrypt(key, SubSeq(data, 1, BlockSize),
                               SubSeq(data, BlockSize + 1, Len(data))),
                    BlockSize)

\* --------------------------------------------------- codec: the actions
RoundTripCall ==
    /\ log.op = "call encryptAES"
    /\ LET blob == encryptAESBytes(log.key, log.iv, log.plain)
       IN log' = [op |-> "decryptAES(encryptAES)", result |-> decryptAESBytes(log.key, blob.bytes),
                  key |-> log.key, plain |-> log.plain, iv |-> log.iv,
                  blob |-> blob,
                  unpadded |-> pkcs7Unpad(pkcs7Pad(log.plain, BlockSize),
                                          BlockSize)]
    /\ UNCHANGED <<now, cfgVars, roomVars, mgrVars, lockVars, netVars,
                   displayed>>

DecryptCall ==
    /\ log.op = "call decryptAES"
    /\ log' = [op |-> "decryptAES", result |-> decryptAESBytes(log.input.key, log.input.data),
               input |-> log.input]
    /\ UNCHANGED <<now, cfgVars, roomVars, mgrVars, lockVars, netVars,
                   displayed>>

\* the calls that are made: encryptions of plaintexts of every length
\* (zeroes, a count, and bytes that look like padding: 0x10 or 0x01
\* everywhere), and decryptions of blobs that are too short, ragged, or
\* end in something that is no PKCS7 padding
CodecCalls ==
    LET Keys == {[i \in 1..KeyLength |-> i], [i \in 1..KeyLength |-> 255 - 7 * i]}
        IVs == {[i \in 1..BlockSize |-> 0], [i \in 1..BlockSize |-> 16 * i - 1]}
        Count(n) == [i \in 1..n |-> (i * 37) % 256]
        Plaintexts ==
            {[i \in 1..n |-> IF c = 256 THEN (i * 37) % 256 ELSE c] :
                n \in 0..MaxPlainLen, c \in {0, 1, 16, 256}}
        BadTails ==
            {<<0>>, <<17>>, <<255>>, <<7, 3, 3>>, <<3, 7, 3>>, <<2, 1, 2>>,
             [i \in 1..16 |-> IF i = 1 THEN 15 ELSE 16]}
        Input(kind, key, data) == [key |-> key, data |-> data, kind |-> kind]
    IN  {[op |-> "call encryptAES", key |-> key, plain |-> plain, iv |-> iv] :
            key \in Keys, iv \in IVs, plain \in Plaintexts}
        \cup
        {[op |-> "call decryptAES", input |-> input] :
            input \in
               {Input("short", key, Count(n)) : key \in Keys, n \in {0, 1, 15}}
               \cup
               {Input("ragged", key, Count(n)) :
                   key \in Keys, n \in {17, 31, 33, 47}}
               \cup
               {Input("badpadding", key,
                      iv \o cbcEncrypt(key, iv, Count(n - Len(tail)) \o tail)) :
                   key \in Keys, iv \in IVs, n \in {16, 32}, tail \in BadTails}
               \cup
               {Input("ivonly", key, iv) : key \in Keys, iv \in IVs}}

InitCodec ==
    /\ InitState(3, [h \in Hosts |-> FALSE])
    /\ log \in CodecCalls

NextCodec == RoundTripCall \/ DecryptCall

SpecCodec == InitCodec /\ [][NextCodec]_vars

\* C15 (padding round trip): for every plaintext p and every 16-byte key,
\* decrypting the encryption of p gives p back without an error, the blob
\* is the IV followed by a whole number of blocks with at least one byte
\* of padding, and unpad(pad(p)) = p.
C15_RoundTrip ==
    (log.op = "decryptAES(encryptAES)") =>
       /\ log.blob.err = "" /\ log.result.err = "" /\ ~log.result.panicked
       /\ log.result.bytes = log.plain
       /\ Len(log.blob.bytes)
             = BlockSize + BlockSize * ((Len(log.plain) \div BlockSize) + 1)
       /\ SubSeq(log.blob.bytes, 1, BlockSize) = log.iv
       /\ log.unpadded = CodecResult(log.plain, "", FALSE)

\* a plaintext of exactly two blocks whose bytes all look like a padding
\* has gone through the round trip
C15_Witness ==
    /\ log.op = "decryptAES(encryptAES)"
    /\ Len(log.plain) = 2 * BlockSize /\ log.plain[1] = 16
    /\ log.result.bytes = log.plain

\* C16 (padding rejection): decrypt fails with 'too short' for a blob
\* shorter than one block, with 'not multiple of block size' for a ragged
\* ciphertext, and with 'invalid padding' when the last decrypted byte is
\* 0, exceeds the block size, or a trailing padding byte differs from it;
\* no plaintext is returned in any of these cases.
C16_Rejection ==
    (log.op = "decryptAES") =>
       LET r == log.result
       IN /\ ~r.panicked
          /\ (log.input.kind = "short") =>
                r = CodecError("ciphertext too short")
          /\ (log.input.kind = "ragged") =>
                r = CodecError("ciphertext length not multiple of block size")
          /\ (log.input.kind = "badpadding") =>
                r = CodecError("invalid padding")
          /\ (r.err # "") => r.bytes = <<>>

\* a two-block blob whose padding bytes disagree has been rejected
C16_Witness ==
    /\ log.op = "decryptAES" /\ log.input.kind = "badpadding"
    /\ Len(log.input.data) = 3 * BlockSize
    /\ cbcDecrypt(log.input.key, SubSeq(log.input.data, 1, BlockSize),
                  SubSeq(log.input.data, BlockSize + 1, 3 * BlockSize))[30] = 7
    /\ log.result.err = "invalid padding"


\* ====================================================================
\* The create and join commands of one operator (part_002 320-380)
\* ====================================================================
\* a command typed while the node is in a room: one line, nothing changes
Rejected(p, op) ==
    /\ InRoom(roomID[p])
    /\ "cli" \notin blocked[p]
    /\ log' = OpRec(op, p, NoAddr, "rejected")
    /\ UNCHANGED <<now, cfgVars, roomVars, mgrVars, lockVars, netVars,
                   displayed>>

RunCLICreate(p, rid, key) == Rejected(p, "CreateRoom") \/ CreateRoom(p, rid, key)
RunCLIJoin(p, rid, pw) == Rejected(p, "JoinRoom") \/ JoinRoom(p, rid, pw)

\* the operators at X and Y
SessionHosts == {"X", "Y"}

\* they type create and join with two room ids; as room key two good
\* keys, a key of 8 bytes, a key of 17 bytes and text that is not base64;
\* in between the listener hears A, then B
NextSession ==
    \/ \E p \in SessionHosts : \E rid \in {"r1", "r2"} :
          \E key \in {K1, Key("K2", KeyLength)} : RunCLICreate(p, rid, key)
    \/ \E p \in SessionHosts : \E rid \in {"r1", "r2"} :
          \E pw \in {Base64Encode(K1), Base64Encode(Key("K2", KeyLength)),
                     Base64Encode(Key("short", 8)),
                     Base64Encode(Key("long", 17)),
                     [b64 |-> FALSE, bytes |-> K1]} :
             RunCLIJoin(p, rid, pw)
    \/ \E p \in SessionHosts : \E d \in DatagramsOf({"A", "B"}, {}) :
          /\ ~IsRoomNode(nodes[p], d.ID)
          /\ RankOf(d.ID.host)
                = Cardinality({i \in 1..Len(nodes[p]) :
                                 nodes[p][i].ID # LocalAddress(p)}) + 1
          /\ listenForBroadcasts(p, d, 0)

SpecSession == InitNet /\ [][NextSession]_vars

\* C17 (bad room key): a join with a key that is not base64 or does not
\* decode to 16 bytes is an error that changes neither the room id, the
\* key, the credential, the members nor the SuperNode manager; the node is
\* still in no room, its next create or join command is not refused as a
\* duplicate, and a node that is in a room holds a 16-byte key that its
\* credential decodes to.
C17_BadKeyAborts ==
    [][/\ (log'.op = "JoinRoom" /\ log'.result = "error") =>
             /\ UNCHANGED <<roomVars, mgrVars>>
             /\ roomID'[log'.host] = ""
             /\ messageKey'[log'.host] = NoKey
       /\ \A p \in SessionHosts :
             roomID'[p] # "" =>
                /\ messageKey'[p].len = KeyLength
                /\ Base64Decode(password'[p]) = [key |-> messageKey'[p],
                                                 ok |-> TRUE]
       /\ (log.op = "JoinRoom" /\ log.result = "error"
           /\ log'.op \in {"CreateRoom", "JoinRoom"}
           /\ log'.host = log.host) =>
             /\ log'.result # "rejected"
             /\ (log'.op = "CreateRoom") =>
                   (log'.result = "ok" /\ roomID'[log'.host] # "")
      ]_vars

\* a join with a bad key has failed and the node is in no room
C17_Witness ==
    /\ log.op = "JoinRoom" /\ log.result = "error"
    /\ roomID[log.host] = "" /\ messageKey[log.host] = NoKey
    /\ ~running[log.host]

\* C18 (one key per room): once a node is in a room, no step changes its
\* message key, its room id or its credential, and every create or join
\* command is rejected and leaves the member sequence as it is.
C18_OneKeyPerRoom ==
    [][\A p \in SessionHosts :
          roomID[p] # "" =>
             /\ messageKey'[p] = messageKey[p]
             /\ roomID'[p] = roomID[p]
             /\ password'[p] = password[p]
             /\ (log' # log /\ log'.host = p
                 /\ log'.op \in {"CreateRoom", "JoinRoom"}) =>
                   (log'.result = "rejected" /\ nodes'[p] = nodes[p])
      ]_vars

\* a join typed in a room that already has a second member was rejected
C18_Witness ==
    /\ log.op = "JoinRoom" /\ log.result = "rejected"
    /\ roomID[log.host] # "" /\ Len(nodes[log.host]) = 2
    /\ messageKey[log.host] = K1


\* ====================================================================
\* Fan-outs with dials that fail one by one
\* ====================================================================
\* X creates the room once B and D are in it; the members are heard in the
\* order of HostOrder, C and D are made SuperNodes from outside; any
\* subset of the dials may fail; the frame of A arrives over a connection
\* from an ephemeral port
NextFanout ==
    \/ \E h \in {"B", "D"} :
          /\ h = "D" => running["B"]
          /\ JoinRoom(h, "r1", Base64Encode(K1))
    \/ /\ running["B"] /\ running["D"]
       /\ CreateRoom("X", "r1", K1)
    \/ \E d \in DatagramsOf({"C", "D"}, {}) :
          /\ roomID["X"] # "" /\ ~IsRoomNode(supernodes["X"], d.ID)
          /\ RankOf(d.ID.host) = Len(supernodes["X"]) + 3
          /\ AddNode("X", d)
    \/ \E d \in DatagramsOf({"C", "D"}, {}) :
          /\ Len(supernodes["X"]) = 2
          /\ ~GetNode(supernodes["X"], d.ID).IsSuperNode
          /\ SetAsSuperNode("X", d.ID)
    \/ \E d \in RouterDatagrams :
          /\ GetSuperNodes(supernodes["X"], now) # <<>>
          /\ ~IsRoomNode(nodes["X"], d.ID)
          /\ RankOf(d.ID.host) = Len(nodes["X"])
          /\ listenForBroadcasts("X", d, 0)
    \/ /\ Len(nodes["X"]) = RouterMaxNodes
       /\ \E b \in BOOLEAN : b # isSuperNode["X"] /\ SetLocalNodeAsSuperNode("X", b)
    \/ \E ok \in SUBSET (1..(RouterMaxNodes - 1)) :
          /\ Len(nodes["X"]) \in {RouterMaxNodes - 1, RouterMaxNodes}
          /\ SendMessageCall("X", "hi", ok, EphemeralPort)
    \/ \E f \in InboundFrames, ok \in SUBSET (1..(RouterMaxNodes - 1)) :
          /\ f.remote.port = EphemeralPort /\ f.data.key = K1
          /\ isSuperNode["X"]
          /\ handleTCPConnection("X", f, ok, EphemeralPort)

SpecFanout == InitRouter /\ [][NextFanout]_vars

\* C19 (independent fan-out): whichever dials fail, SendMessage returns
\* without error and has dialled every member but itself (direct, fallback)
\* or every other live SuperNode (forward), the inbound handler has dialled
\* every Regular member and every live SuperNode but itself and the remote
\* address, and every dial that succeeded has delivered its frame.
C19_FanOutIndependent ==
    LET p == log.host
        local == LocalAddress(p)
        Members == {nodes[p][i].Address : i \in 1..Len(nodes[p])}
        Relays == {supernodes[p][i].Address :
                     i \in {j \in 1..Len(supernodes[p]) :
                              /\ supernodes[p][j].IsSuperNode
                              /\ IsLive(supernodes[p][j], now)}}
        Flagged == {supernodes[p][i].ID :
                      i \in {j \in 1..Len(supernodes[p]) :
                               supernodes[p][j].IsSuperNode}}
        Sent(dials, hops) ==
            \A i \in log.ok :
               running[dials[i].host] =>
                  \E f \in tcp : f.to = dials[i] /\ f.from = p /\ f.hops = hops
    IN /\ (log.op = "SendMessage" /\ log.branch # "blocked") =>
             /\ log.returned
             /\ Cardinality(Range(log.dials)) = Len(log.dials)
             /\ (log.branch \in {"direct", "fallback"}) =>
                   Range(log.dials) = Members \ {local}
             /\ (log.branch = "forward") =>
                   Range(log.dials) = Relays \ {local}
             /\ Sent(log.dials, 0)
       /\ (log.op = "handleTCPConnection" /\ log.result = "forwarded") =>
             /\ Range(log.regular) = (Members \ {local, log.remote}) \ Flagged
             /\ Range(log.relays) = Relays \ {local, log.remote}
             /\ Sent(log.regular \o log.relays, log.hops + 1)

\* a direct fan-out to four members in which the dials to A and C failed
\* and the frames for B and D were delivered
C19_Witness ==
    /\ log.op = "SendMessage" /\ log.branch = "direct" /\ log.returned
    /\ Len(log.dials) = 4 /\ log.ok = {2, 4}
    /\ \E f \in tcp : f.to = LocalAddress("B") /\ f.from = "X"
    /\ \E f \in tcp : f.to = LocalAddress("D") /\ f.from = "X"


\* C20 (every member announces itself): a running node in a room, creator
\* or joiner, broadcasts its record every period, so every other running
\* node of the room eventually has it among its members.
C20_EveryNodeAnnounces ==
    \A p \in NetHosts : \A q \in NetHosts \ {p} :
       (/\ running[p] /\ running[q]
        /\ roomID[p] # "" /\ roomID[q] = roomID[p])
       ~> IsRoomNode(nodes[q], LocalAddress(p))


\* ====================================================================
\* Discovery between a creator and a joiner, either of which may opt out
\* ====================================================================
\* NewP2PChat copies AppConfig.NoSuperNode into LocalNode and the manager
InitOptOut == \E optOut \in SUBSET NetHosts :
                  InitWith(NetMaxNodes, [h \in Hosts |-> h \in optOut])

SpecOptOut == InitOptOut /\ [][NextNet]_vars

\* C21 (opt-out travels with the announcement): every discovery datagram in
\* flight carries the sender's supernodeOptOut value, and the record a node
\* holds for another node has that node's opt-out value, so a node that
\* opted out is Relay in no other node's peer table.
C21_OptOutAnnounced ==
    /\ \A d \in udp : d.info.NoSuperNode = cfgNoSuperNode[d.info.ID.host]
    /\ \A p \in NetHosts : \A i \in 1..Len(supernodes[p]) :
          LET sn == supernodes[p][i] IN
          /\ sn.NoSuperNode = cfgNoSuperNode[sn.ID.host]
          /\ cfgNoSuperNode[sn.ID.host] => ~sn.IsSuperNode

\* C22 (announcements refresh liveness): when the listener reads an
\* announcement of a peer it already knows, that peer's record has
\* LastActive equal to the time of the read afterwards, so a peer that
\* keeps announcing stays live.
C22_AnnouncementRefreshes ==
    [][(/\ Cardinality(udp') < Cardinality(udp)
        /\ log'.op = "Listen" /\ log'.result = "ignored"
        /\ log'.id # LocalAddress(log'.host))
       => LET tbl == supernodes'[log'.host]
              i == IndexOfID(tbl, log'.id)
          IN i # 0 /\ tbl[i].LastActive = now' /\ IsLive(tbl[i], now')]_vars

C23_AdmitFrame ==
    [][(/\ log'.op = "AddNode" /\ now' = now
        /\ log'.result \in {"refreshed", "added"})
       => LET p == log'.host
              tbl == supernodes[p]
              new == supernodes'[p]
              i == IndexOfID(tbl, log'.id)
          IN /\ isSuperNode' = isSuperNode
             /\ IF i # 0
                THEN /\ log'.result = "refreshed"
                     /\ Len(new) = Len(tbl)
                     /\ \A j \in 1..Len(tbl) : j # i => new[j] = tbl[j]
                     /\ new[i].ID = log'.id
                     /\ new[i].IsSuperNode = tbl[i].IsSuperNode
                     /\ new[i].LastActive = now
                ELSE /\ log'.result = "added"
                     /\ Len(new) = Len(tbl) + 1
                     /\ SubSeq(new, 1, Len(tbl)) = tbl
                     /\ new[Len(new)].ID = log'.id
                     /\ ~new[Len(new)].IsSuperNode
                     /\ new[Len(new)].LastActive = now]_vars

\* a Relay record that says it opts out, third of three, re-admitted 15 s or
\* more after the first admission while the local node is Relay
C23_Witness ==
    /\ log.op = "AddNode" /\ log.result = "refreshed"
    /\ now > 0 /\ isSuperNode[log.host]
    /\ LET tbl == supernodes[log.host]
           i == IndexOfID(tbl, log.id)
       IN /\ Len(tbl) >= 3 /\ i = 3
          /\ tbl[i].IsSuperNode /\ tbl[i].NoSuperNode
          /\ tbl[i].LastActive = now
          /\ tbl[1].LastActive < now


\* C24 (initial election): SelectInitialSuperNode returns; it selects among
\* the first 5 records in table order that are neither the local node nor
\* opted out, promotes exactly the selected record, and with no candidate it
\* returns no id and changes no role.
C24_ElectInitial ==
    [][(log'.op = "SelectInitialSuperNode" /\ now' = now
        /\ log'.result # "blocked")
       => LET p == log'.host
              tbl == supernodes[p]
              new == supernodes'[p]
              cands == {i \in 1..Len(tbl) :
                          /\ i <= InitialCandidates
                          /\ tbl[i].ID # LocalAddress(p)
                          /\ ~tbl[i].NoSuperNode}
          IN /\ log'.result \in {"done", "none"}
             /\ Len(new) = Len(tbl)
             /\ IF cands = {}
                THEN /\ log'.result = "none"
                     /\ new = tbl /\ isSuperNode' = isSuperNode
                ELSE \E i \in cands :
                        /\ log'.id = tbl[i].ID
                        /\ new[i].IsSuperNode
                        /\ \A j \in 1..Len(tbl) :
                              j # i => new[j] = tbl[j]]_vars

\* C26 (leave): a HandleNodeLeave(id) that returns has removed id's record;
\* unless id was a live Relay and at most one Relay (id included) was live,
\* the call changes no record's role and not the local relay flag.
C26_HandleLeave ==
    [][(log'.op = "HandleNodeLeave" /\ now' = now /\ log'.result = "done")
       => LET p == log'.host
              tbl == supernodes[p]
              i == IndexOfID(tbl, log'.id)
              runsFailover ==
                  /\ i # 0 /\ tbl[i].IsSuperNode /\ IsLive(tbl[i], now)
                  /\ Len(GetSuperNodes(tbl, now)) <= 1
          IN /\ IndexOfID(supernodes'[p], log'.id) = 0
             /\ ~runsFailover
                   => /\ isSuperNode' = isSuperNode
                      /\ supernodes'[p] = RemoveNodeFrom(tbl, log'.id)]_vars

\* C27 (failover): when HandleNodeLeave runs the failover, the call returns
\* and has promoted exactly the first record in table order that is live,
\* Regular, not the local node and not opted out; only when there is no such
\* record does the local node become Relay, unless it opted out.
C27_FailoverPromotes ==
    [][(/\ log'.op = "HandleNodeLeave" /\ now' = now
        /\ log'.result # "blocked"
        /\ LET tbl == supernodes[log'.host]
               i == IndexOfID(tbl, log'.id)
           IN /\ i # 0 /\ tbl[i].IsSuperNode
              /\ Len(GetSuperNodes(tbl, now)) <= 1)
       => LET p == log'.host
              tbl == supernodes[p]
              i == IndexOfID(tbl, log'.id)
              eligible == {j \in 1..Len(tbl) :
                             /\ IsLive(tbl[j], now) /\ ~tbl[j].IsSuperNode
                             /\ tbl[j].ID # LocalAddress(p)
                             /\ ~tbl[j].NoSuperNode}
              first == CHOOSE j \in eligible : \A k \in eligible : j <= k
          IN /\ log'.result = "done"
             /\ IF eligible # {}
                THEN /\ isSuperNode' = isSuperNode
                     /\ supernodes'[p] =
                           RemoveAt([tbl EXCEPT ![first].IsSuperNode = TRUE,
                                                ![first].LastActive = now], i)
                ELSE /\ supernodes'[p] = RemoveAt(tbl, i)
                     /\ isSuperNode'[p] = (isSuperNode[p] \/ ~noSuperNode[p])]_vars


\* ====================================================================
\* The message router of X while the clock advances
\* ====================================================================
\* node X creates the room and admits A .. in order; C and D are added or
\* made SuperNode from outside, the local role is switched, the mode is
\* switched once the room has 5 members,
\* time passes, and X sends while no frame of its own is in flight
NextRoute ==
    \/ CreateRoom("X", "r1", K1)
    \/ \E d \in RouterDatagrams :
          MemberInOrder(nodes["X"], d) /\ listenForBroadcasts("X", d, 0)
    \/ \E d \in RouterRelayDatagrams : AddNode("X", d)
    \/ \E id \in IDsOf({"C", "D"}) : SetAsSuperNode("X", id)
    \/ \E b \in BOOLEAN : SetLocalNodeAsSuperNode("X", b)
    \/ \E b \in BOOLEAN :
          Len(nodes["X"]) >= RelayThreshold /\ SetSuperNodeMode("X", b)
    \/ Tick
    \/ \E ok \in DialOutcomes :
          /\ tcp = {}
          /\ SendMessageCall("X", "hi", ok, EphemeralPort)
          /\ AllOrNone(ok, log'.dials)

SpecRoute == InitRouter /\ [][NextRoute]_vars

\* C28 (routing decision): a SendMessage that returns has taken its branch
\* from the state at the call: the direct fan-out iff relay mode is inactive
\* for the member count, or active with the local node Regular and no live
\* Relay known; forward() iff relay mode is active and the local node is
\* Relay; one dial to the first live Relay iff relay mode is active, the
\* local node is Regular and a live Relay is known.
C28_RoutingDecision ==
    [][(log'.op = "SendMessage" /\ log'.returned /\ now' = now)
       => LET p == log'.host
              tbl == supernodes[p]
              active == superNodeMode[p] /\ Len(nodes[p]) > RelayThreshold
              liveRelays == {i \in 1..Len(tbl) :
                               /\ tbl[i].IsSuperNode
                               /\ now - tbl[i].LastActive < LivenessTimeout}
              first == CHOOSE i \in liveRelays : \A j \in liveRelays : i <= j
              others == {nodes[p][i].Address : i \in 1..Len(nodes[p])}
                           \ {LocalAddress(p)}
          IN /\ (log'.branch \in {"direct", "fallback"})
                   <=> (~active \/ (~isSuperNode[p] /\ liveRelays = {}))
             /\ (log'.branch = "forward") <=> (active /\ isSuperNode[p])
             /\ (log'.branch = "relay")
                   <=> (active /\ ~isSuperNode[p] /\ liveRelays # {})
             /\ log'.branch \in {"direct", "fallback"}
                   => Range(log'.dials) = others
             /\ log'.branch = "relay"
                   => log'.dials = <<tbl[first].Address>>
             /\ log'.branch = "forward"
                   => Range(log'.dials)
                         \subseteq {tbl[i].Address : i \in liveRelays}]_vars

\* a Regular node in relay mode whose only Relay has timed out sends to
\* every member directly
C28_Witness ==
    /\ log.op = "SendMessage" /\ log.returned /\ log.branch = "fallback"
    /\ log.count = RelayThreshold + 1
    /\ Len(log.dials) = RelayThreshold
    /\ \E i \in 1..Len(supernodes[log.host]) :
          /\ supernodes[log.host][i].IsSuperNode
          /\ ~IsLive(supernodes[log.host][i], now)

\* C29 (direct below the threshold): with at most 5 members SendMessage
\* returns and dials every member other than the local node exactly once
\* and never the local node, whatever the roles in the table and the local
\* relay flag.
C29_DirectBelowThreshold ==
    (log.op = "SendMessage" /\ log.count <= RelayThreshold)
    => LET p == log.host
           others == {nodes[p][i].Address : i \in 1..Len(nodes[p])}
                        \ {LocalAddress(p)}
       IN /\ log.returned
          /\ log.count = Len(nodes[p])
          /\ Range(log.dials) = others
          /\ Len(log.dials) = Cardinality(others)
          /\ LocalAddress(p) \notin Range(log.dials)

\* a Relay with 5 members, one of them a live Relay, has dialled the 4 others
C29_Witness ==
    /\ log.op = "SendMessage" /\ log.returned
    /\ log.count = RelayThreshold /\ Len(log.dials) = RelayThreshold - 1
    /\ isSuperNode[log.host] /\ superNodeMode[log.host]
    /\ Len(GetSuperNodes(supernodes[log.host], now)) > 0

\* C30 (forward): a SendMessage that takes the forward branch dials exactly
\* the records that are Relay and live at the call and whose address is not
\* the local one, each once; it dials no Regular peer, no expired Relay and
\* not the local node.
C30_ForwardTargets ==
    [][(/\ log'.op = "SendMessage" /\ log'.returned /\ now' = now
        /\ log'.branch = "forward")
       => LET p == log'.host
              tbl == supernodes[p]
              targets == {i \in 1..Len(tbl) :
                            /\ tbl[i].IsSuperNode
                            /\ now - tbl[i].LastActive < LivenessTimeout
                            /\ tbl[i].Address # LocalAddress(p)}
          IN /\ Range(log'.dials) = {tbl[i].Address : i \in targets}
             /\ Len(log'.dials) = Cardinality(targets)]_vars

\* forward() with one live Relay to dial, next to an expired Relay and a live
\* Regular peer that are not dialled
C30_Witness ==
    /\ log.op = "SendMessage" /\ log.returned /\ log.branch = "forward"
    /\ Len(log.dials) = 1
    /\ LET tbl == supernodes[log.host] IN
       /\ \E i \in 1..Len(tbl) : tbl[i].IsSuperNode /\ ~IsLive(tbl[i], now)
       /\ \E i \in 1..Len(tbl) : ~tbl[i].IsSuperNode /\ IsLive(tbl[i], now)
       /\ \E i \in 1..Len(tbl) :
             /\ tbl[i].IsSuperNode /\ IsLive(tbl[i], now)
             /\ log.dials = <<tbl[i].Address>>


\* ====================================================================
\* Properties the description takes for granted
\* ====================================================================
\* C35 (the initial election terminates): the call of SelectInitialSuperNode
\* made by the listener returns and releases sm.mu, so the listener is never
\* stuck, the manager's lock is never held for good and no goroutine waits
\* for it forever.
C35_ElectionTerminates ==
    /\ log.op = "Listen" => log.result \notin {"deadlock", "blocked"}
    /\ \A p \in Hosts : ~muHeld[p] /\ blocked[p] = {}

\* C38 (the local node is a member): a node that is in a room is itself an
\* entry of its member sequence, on a creator and on a joiner alike.
C38_LocalIsMember ==
    \A p \in Hosts :
        roomID[p] # "" => IsRoomNode(nodes[p], LocalAddress(p))

\* C37 (a message leaves the node): a SendMessage that returns in a room
\* with a member other than the local node has attempted at least one
\* outbound connection, whatever the branch.
C37_SomeDial ==
    (/\ log.op = "SendMessage" /\ log.returned
     /\ \E i \in 1..Len(nodes[log.host]) :
           nodes[log.host][i].Address # LocalAddress(log.host))
    => Len(log.dials) >= 1

\* ------------- node X admits A, B, C in order, and peers leave its table
NextLeave ==
    \/ CreateRoom("X", "r1", K1)
    \/ \E d \in DatagramsOf({"A", "B", "C"}, {}) :
          MemberInOrder(nodes["X"], d) /\ listenForBroadcasts("X", d, 0)
    \/ \E d \in DatagramsOf({"A", "B"}, {}) : AddNode("X", d)
    \/ \E id \in IDsOf({"A", "B"}) : SetAsSuperNode("X", id)
    \/ \E id \in IDsOf({"A", "B", "C"}) : RemoveNode("X", id)
    \/ \E id \in IDsOf({"A", "B", "C"}) : HandleNodeLeave("X", id)

SpecLeave == Init /\ [][NextLeave]_vars

\* C40 (members follow the table): once RemoveNode or HandleNodeLeave of a
\* peer has returned, the peer is no longer in the member sequence.
C40_LeaveRemovesMember ==
    [][(/\ log'.op \in {"RemoveNode", "HandleNodeLeave"}
        /\ log'.result = "done")
       => ~IsRoomNode(nodes'[log'.host], log'.id)]_vars


\* ====================================================================
\* The inbound handler of X while the clock advances
\* ====================================================================
\* what arrives at X from A: a message of the room, the same under another
\* key, a message of another room, and bytes that are not a message
InboundPayloads ==
    {encryptAES(K1, Message("r1", Nickname("A"), 0, "hi")),
     encryptAES(Key("K2", KeyLength), Message("r1", Nickname("A"), 0, "hi")),
     encryptAES(K1, Message("r2", Nickname("A"), 0, "hi")),
     encryptAES(K1, NotJSON)}

\* node X creates the room and admits A .. in order; C is added or
\* made SuperNode from outside, the local role is switched, the mode is
\* switched once the room has 5 members, time passes, and X handles a frame
\* while no frame of its own is in flight
NextInbound ==
    \/ CreateRoom("X", "r1", K1)
    \/ \E d \in RouterDatagrams :
          MemberInOrder(nodes["X"], d) /\ listenForBroadcasts("X", d, 0)
    \/ \E d \in RouterRelayDatagrams : AddNode("X", d)
    \/ \E id \in IDsOf({"C"}) : SetAsSuperNode("X", id)
    \/ \E b \in BOOLEAN : SetLocalNodeAsSuperNode("X", b)
    \/ \E b \in BOOLEAN :
          Len(nodes["X"]) >= RelayThreshold /\ SetSuperNodeMode("X", b)
    \/ Tick
    \/ \E data \in InboundPayloads, ok \in DialOutcomes :
          /\ tcp = {}
          /\ handleTCPConnection("X",
                 Frame(LocalAddress("X"), "A", Addr("A", EphemeralPort),
                       data, 0), ok, EphemeralPort)
          /\ AllOrNone(ok, log'.regular \o log'.relays)

SpecInbound == InitRouter /\ [][NextInbound]_vars

\* C31 (bad frames are dropped): a frame that does not decrypt, does not
\* decode or is for another room is dropped; a dropped frame is neither
\* displayed nor forwarded and changes nothing else, and the node keeps
\* running with no goroutine stuck.
C31_BadFrameDropped ==
    [][(log'.op = "handleTCPConnection" /\ now' = now)
       => LET p == log'.host IN
          /\ (log'.message = NoMessage \/ log'.message.RoomID # roomID[p])
                => log'.result = "dropped"
          /\ log'.result = "dropped"
                => /\ displayed' = displayed
                   /\ tcp' \subseteq tcp
                   /\ log'.regular = <<>> /\ log'.relays = <<>>
                   /\ log'.shown = 0
                   /\ UNCHANGED <<roomVars, mgrVars, lockVars>>]_vars

\* a Relay in relay mode has dropped a message of another room
C31_Witness ==
    /\ log.op = "handleTCPConnection" /\ log.result = "dropped"
    /\ log.message.RoomID = "r2" /\ roomID[log.host] = "r1"
    /\ isSuperNode[log.host] /\ superNodeMode[log.host]
    /\ Len(nodes[log.host]) > RelayThreshold
    /\ displayed[log.host] = {}

C36_PassesCoverMembers ==
    [][(/\ log'.op = "handleTCPConnection" /\ now' = now
        /\ log'.result = "forwarded")
       => LET p == log'.host
              dials == log'.regular \o log'.relays
          IN \A i \in 1..Len(nodes[p]) :
                nodes[p][i].Address \notin
                    {LocalAddress(p), LocalAddress(log'.from)}
                => Cardinality({k \in 1..Len(dials) :
                                  dials[k] = nodes[p][i].Address}) = 1]_vars

\* C39 (relay mode has a Relay): whenever relay mode is active for the
\* member count and the table holds a live peer that has not opted out,
\* some peer - a record of the table or the local node - is Relay.
C39_RelayModeHasRelay ==
    \A p \in Hosts :
        (/\ ShouldEnableSuperNodeMode(superNodeMode[p], Len(nodes[p]))
         /\ \E i \in 1..Len(supernodes[p]) :
               /\ IsLive(supernodes[p][i], now)
               /\ ~supernodes[p][i].NoSuperNode)
        => \/ isSuperNode[p]
           \/ \E i \in 1..Len(supernodes[p]) :
                 /\ IsLive(supernodes[p][i], now)
                 /\ supernodes[p][i].IsSuperNode


\* ====================================================================
\* The two locks: P2PChat.NodeMutex and SuperNodeManager.mu
\* ====================================================================
\* the goroutines of one node: the UDP listener, one connection handler
\* and the command loop
NodeGoroutines == {"listener", "tcp", "cli"}

\* the most members a forwarding pass looks up in the table
MaxLookups == 1

\* one step of a goroutine: a lock call, an access of Room.Nodes
Step(ev, lock, mode) == [mode |-> mode, ev |-> ev, lock |-> lock]

\* sync.RWMutex: Lock registers the writer, which then waits for the lock
Lock(l) == <<Step("call", l, "W"), Step("acquire", l, "W")>>
Unlock(l) == <<Step("release", l, "W")>>
RLock(l) == <<Step("acquire", l, "R")>>
RUnlock(l) == <<Step("release", l, "R")>>

\* a read of p.Room.Nodes (len, range) and the append to it
ReadNodes == <<Step("read", "Room.Nodes", "")>>
AppendNodes == <<Step("write", "Room.Nodes", "")>>

\* GetNode, GetSuperNodes and IsLocalNodeSuperNode: RLock with a deferred
\* RUnlock; ForwardMessageToSuperNodes and GetBestSuperNodeForConnection
\* take no lock themselves and call GetSuperNodes once
Locks_GetNode == RLock("mu") \o RUnlock("mu")
Locks_GetSuperNodes == RLock("mu") \o RUnlock("mu")
Locks_IsLocalNodeSuperNode == RLock("mu") \o RUnlock("mu")

\* AddNode: Lock with a deferred Unlock
Locks_AddNode == Lock("mu") \o Unlock("mu")

\* SelectInitialSuperNode: Lock with a deferred Unlock, and GetNode through
\* checkIfNodeIsNoSuperNode for the record in the table
Locks_SelectInitialSuperNode == Lock("mu") \o Locks_GetNode \o Unlock("mu")

RECURSIVE Repeat(_, _)
Repeat(prog, n) == IF n = 0 THEN <<>> ELSE prog \o Repeat(prog, n - 1)

\* one iteration of listenForBroadcasts: the membership loop; for a new id
\* the cap test and the append under NodeMutex, AddNode, the count test,
\* and for the second member GetSuperNodes and, with no SuperNode known,
\* the second count test and the election
Locks_listenForBroadcasts(outcome) ==
    ReadNodes \o
    CASE outcome = "known" -> <<>>
      [] outcome = "full" ->
            Lock("NodeMutex") \o ReadNodes \o Unlock("NodeMutex")
      [] OTHER ->
            Lock("NodeMutex") \o ReadNodes \o AppendNodes
            \o Unlock("NodeMutex") \o Locks_AddNode \o ReadNodes
            \o (IF outcome = "admitted" THEN <<>>
                ELSE Locks_GetSuperNodes
                     \o (IF outcome = "second" THEN <<>>
                         ELSE ReadNodes \o Locks_SelectInitialSuperNode))

ListenOutcomes == {"known", "full", "admitted", "second", "elect"}

\* a handler that looks the members up first and takes NodeMutex inside
\* the manager's lock
Locks_handleTCPConnection_ManagerFirst(outcome, lookups) ==
    ReadNodes \o
    CASE outcome = "plain" -> <<>>
      [] outcome = "regular" -> Locks_IsLocalNodeSuperNode
      [] OTHER ->
            Locks_IsLocalNodeSuperNode
            \o RLock("mu") \o RLock("NodeMutex") \o ReadNodes
            \o RUnlock("NodeMutex") \o RUnlock("mu")

\* handleTCPConnection for an accepted message: the count for
\* ShouldEnableSuperNodeMode; in relay mode IsLocalNodeSuperNode; at a
\* SuperNode the two passes under NodeMutex.RLock, with GetNode for each
\* member looked up and GetSuperNodes once
Locks_handleTCPConnection(outcome, lookups) ==
    ReadNodes \o
    CASE outcome = "plain" -> <<>>
      [] outcome = "regular" -> Locks_IsLocalNodeSuperNode
      [] OTHER ->
            Locks_IsLocalNodeSuperNode
            \o RLock("NodeMutex") \o ReadNodes
            \o Repeat(Locks_GetNode, lookups)
            \o Locks_GetSuperNodes \o RUnlock("NodeMutex")

HandlerOutcomes == {"plain", "regular", "forward"}

\* SendMessage: the count for ShouldEnableSuperNodeMode, then one of the
\* four branches; the direct and the fallback branch range over Room.Nodes
\* under NodeMutex.RLock with a deferred RUnlock
Locks_SendMessage(branch) ==
    ReadNodes \o
    CASE branch = "direct" ->
            RLock("NodeMutex") \o ReadNodes \o RUnlock("NodeMutex")
      [] branch = "forward" ->
            Locks_IsLocalNodeSuperNode \o Locks_GetSuperNodes
      [] branch = "relay" ->
            Locks_IsLocalNodeSuperNode \o Locks_GetSuperNodes
      [] OTHER ->
            Locks_IsLocalNodeSuperNode \o Locks_GetSuperNodes
            \o RLock("NodeMutex") \o ReadNodes \o RUnlock("NodeMutex")

\* the commands of RunCLI that touch a lock: a chat line, /list and the
\* lock section of /exit
Locks_RunCLI ==
    {Locks_SendMessage(b) : b \in {"direct", "forward", "relay", "fallback"}}
    \cup {RLock("NodeMutex") \o ReadNodes \o ReadNodes \o RUnlock("NodeMutex"),
          Lock("NodeMutex") \o Unlock("NodeMutex")}

ProgramsOf(g) ==
    CASE g = "listener" -> {Locks_listenForBroadcasts(o) : o \in ListenOutcomes}
      [] g = "tcp" -> {Locks_handleTCPConnection(o, k) :
                          o \in HandlerOutcomes, k \in 0..MaxLookups}
      [] OTHER -> Locks_RunCLI

NoStep == Step("", "", "")

\* last: the latest access of Room.Nodes, if it was the latest step
NoAccess == [g |-> "", step |-> NoStep, guard |-> ""]

InitLocks ==
    /\ InitState(3, [h \in Hosts |-> FALSE])
    /\ log = [op |-> "locks",
              prog |-> [g \in NodeGoroutines |-> <<>>],
              pc |-> [g \in NodeGoroutines |-> 1],
              held |-> [g \in NodeGoroutines |-> <<>>],
              last |-> NoAccess]

\* what the goroutine is about to do
Running(g) == log.pc[g] <= Len(log.prog[g])
NextStep(g) == IF Running(g) THEN log.prog[g][log.pc[g]] ELSE NoStep

Holds(g, l, m) ==
    \E i \in 1..Len(log.held[g]) : log.held[g][i] = <<l, m>>
HoldsAny(g, l) == Holds(g, l, "R") \/ Holds(g, l, "W")

\* the writer has called Lock and has not got the lock yet
Pending(g, l) == NextStep(g) = Step("acquire", l, "W")

\* sync.RWMutex: Lock waits for every holder; RLock waits for a writer that
\* holds the lock or has called Lock
CanAcquire(g, l, m) ==
    IF m = "W"
    THEN \A h \in NodeGoroutines : ~HoldsAny(h, l)
    ELSE \A h \in NodeGoroutines : ~Holds(h, l, "W") /\ ~Pending(h, l)

\* the mode in which g holds NodeMutex
GuardOf(g) ==
    IF Holds(g, "NodeMutex", "W") THEN "W"
    ELSE IF Holds(g, "NodeMutex", "R") THEN "R" ELSE ""

\* held without its last entry for lock l
RECURSIVE Released(_, _)
Released(held, l) ==
    IF held = <<>> THEN <<>>
    ELSE IF held[Len(held)][1] = l THEN SubSeq(held, 1, Len(held) - 1)
    ELSE Append(Released(SubSeq(held, 1, Len(held) - 1), l), held[Len(held)])

Advance(g, held) ==
    /\ log' = [log EXCEPT !.pc[g] = @ + 1, !.held[g] = held,
                          !.last = IF NextStep(g).ev \in {"read", "write"}
                                   THEN [g |-> g, step |-> NextStep(g),
                                         guard |-> GuardOf(g)]
                                   ELSE NoAccess]
    /\ UNCHANGED <<now, cfgVars, roomVars, mgrVars, lockVars, netVars,
                   displayed>>

\* the goroutine starts its next iteration, frame or command
StartProgram(g) ==
    /\ ~Running(g)
    /\ \E prog \in ProgramsOf(g) :
          log' = [log EXCEPT !.prog[g] = prog, !.pc[g] = 1]
    /\ UNCHANGED <<now, cfgVars, roomVars, mgrVars, lockVars, netVars,
                   displayed>>

CallLock(g) ==
    /\ NextStep(g).ev = "call"
    /\ Advance(g, log.held[g])

AcquireLock(g) ==
    /\ NextStep(g).ev = "acquire"
    /\ CanAcquire(g, NextStep(g).lock, NextStep(g).mode)
    /\ Advance(g, Append(log.held[g], <<NextStep(g).lock, NextStep(g).mode>>))

ReleaseLock(g) ==
    /\ NextStep(g).ev = "release"
    /\ Advance(g, Released(log.held[g], NextStep(g).lock))

AccessNodes(g) ==
    /\ NextStep(g).ev \in {"read", "write"}
    /\ Advance(g, log.held[g])

NextLocks ==
    \/ \E g \in NodeGoroutines : StartProgram(g)
    \/ \E g \in NodeGoroutines : CallLock(g)
    \/ \E g \in NodeGoroutines : AcquireLock(g)
    \/ \E g \in NodeGoroutines : ReleaseLock(g)
    \/ \E g \in NodeGoroutines : AccessNodes(g)

SpecLocks == InitLocks /\ [][NextLocks]_vars

\* g cannot take lock l because of h
WaitsFor(g, h, l) ==
    /\ NextStep(g).ev = "acquire" /\ NextStep(g).lock = l
    /\ IF NextStep(g).mode = "W"
       THEN HoldsAny(h, l)
       ELSE Holds(h, l, "W") \/ Pending(h, l)

Waits(g, h) == \E l \in {"NodeMutex", "mu"} : WaitsFor(g, h, l)

Reaches(g, h) ==
    \/ g = h
    \/ Waits(g, h)
    \/ \E k \in NodeGoroutines : Waits(g, k) /\ Waits(k, h)

\* a cycle of waiting goroutines that goes through both locks
TwoLockCycle ==
    \E a, b, c, d \in NodeGoroutines :
        /\ WaitsFor(a, b, "NodeMutex") /\ WaitsFor(c, d, "mu")
        /\ Reaches(b, c) /\ Reaches(d, a)

\* C33 (lock order): a goroutine that holds both locks took NodeMutex
\* before the manager's lock; no goroutine calls for or takes NodeMutex
\* while it holds the manager's lock; no cycle of waiting goroutines goes
\* through both locks.
C33_LockOrder ==
    /\ \A g \in NodeGoroutines :
          /\ \A i, j \in 1..Len(log.held[g]) :
                (log.held[g][i][1] = "mu" /\ log.held[g][j][1] = "NodeMutex")
                => j < i
          /\ HoldsAny(g, "mu") => NextStep(g).lock # "NodeMutex"
    /\ ~TwoLockCycle

\* the handler holds NodeMutex and then the manager's lock, both shared,
\* while the listener has called Lock on NodeMutex and waits for it
C33_Witness ==
    /\ log.held["tcp"] = <<<<"NodeMutex", "R">>, <<"mu", "R">>>>
    /\ Pending("listener", "NodeMutex")

\* C34 (Room.Nodes under NodeMutex): every read of Room.Nodes is made by a
\* goroutine that holds NodeMutex, shared or exclusive, and every write by
\* one that holds it exclusively.
C34_NodesUnderLock ==
    /\ log.last.step.ev = "read" => log.last.guard \in {"R", "W"}
    /\ log.last.step.ev = "write" => log.last.guard = "W"

\* the handler reads len(Room.Nodes) with no lock while the listener is
\* between NodeMutex.Lock and the append
NodesRace ==
    /\ log.last.g = "tcp" /\ log.last.step.ev = "read" /\ log.last.guard = ""
    /\ Holds("listener", "NodeMutex", "W")
    /\ NextStep("listener").ev = "write"


====
